---- MODULE Spec2Model ----
(***************************************************************************)
(* A state-machine model of the druid UI core (src/src/lib.rs): the widget *)
(* tree, the interaction singletons, the deferred event queue with its     *)
(* listener registry, pointer / keyboard / scroll / command routing and    *)
(* the box-constraint layout pass.                                         *)
(*                                                                         *)
(* Ids are the 0-based indices of the source; the Id-indexed vectors are   *)
(* sequences read through At(v, id).  Sizes and positions are integers.    *)
(***************************************************************************)
EXTENDS Integers, Sequences, FiniteSets, TLC

\* ------------------------------------------------------------------ bounds

\* Largest number of slots of the Id-indexed vectors (Ids are 0..MaxNodes-1).
MaxNodes == 3
\* Largest number of items held by the taken batch and the live queue together.
MaxQueue == 2
\* Largest number of add_listener calls in one behaviour.
MaxListeners == 2
\* Largest number of delete_child calls in one behaviour.
MaxDeletes == 1
\* Largest number of Ui operations performed by the code that builds the tree.
MaxBuildOps == 5
\* Largest number of Ui operations one listener invocation performs.
MaxListenerOps == 2
\* Largest coordinate of a pointer position, an origin or a size.
MaxCoord == 2
\* Latest time on the host's clock.
MaxClock == 2

\* Option::None for an Option<Id>.
None == -1

Ids == 0 .. (MaxNodes - 1)
OptIds == Ids \cup {None}
Payloads == {1, 2}
Coords == 0 .. MaxCoord

\* --------------------------------------------------------------- vectors

At(v, id) == v[id + 1]
Put(v, id, x) == [v EXCEPT ![id + 1] = x]
IdsOf(v) == 0 .. (Len(v) - 1)
Last(s) == s[Len(s)]
Front(s) == SubSeq(s, 1, Len(s) - 1)
SeqRange(s) == {s[i] : i \in 1 .. Len(s)}

RECURSIVE Reverse(_)
Reverse(s) == IF s = <<>> THEN <<>> ELSE Append(Reverse(Tail(s)), Head(s))

\* Position of the first element of s equal to x (0 when there is none).
Position(s, x) ==
    IF \E i \in 1 .. Len(s) : s[i] = x
    THEN CHOOSE i \in 1 .. Len(s) : s[i] = x /\ \A j \in 1 .. (i - 1) : s[j] # x
    ELSE 0

InsertAt(s, i, x) == SubSeq(s, 1, i - 1) \o <<x>> \o SubSeq(s, i, Len(s))
RemoveAt(s, i) == SubSeq(s, 1, i - 1) \o SubSeq(s, i + 1, Len(s))

\* ----------------------------------------------------------- arena graph
\* graph.rs is not among the sources: the graph is modelled from section 4.1
\* and the data model of the specification.

GraphDefault == [root |-> 0, children |-> <<>>, parent |-> <<>>, free_list |-> <<>>]

\* Reuses a freed Id if one is available, else grows the arena; a fresh node
\* is its own parent (detached) and has no children.
alloc_node(g) ==
    IF g.free_list # <<>>
    THEN [graph |-> [g EXCEPT !.free_list = Front(@)], id |-> Last(g.free_list)]
    ELSE [graph |-> [g EXCEPT !.children = Append(@, <<>>),
                              !.parent = Append(@, Len(g.children))],
          id |-> Len(g.children)]

graph_append_child(g, node, child) ==
    [g EXCEPT !.children = Put(@, node, Append(At(@, node), child)),
              !.parent = Put(@, child, node)]

graph_add_before(g, node, sibling, child) ==
    [g EXCEPT !.children =
                  Put(@, node, InsertAt(At(@, node), Position(At(@, node), sibling), child)),
              !.parent = Put(@, child, node)]

graph_remove_child(g, node, child) ==
    [g EXCEPT !.children = Put(@, node, RemoveAt(At(@, node), Position(At(@, node), child))),
              !.parent = Put(@, child, child)]

\* The nodes of the subtree rooted at node, breadth first.
RECURSIVE SubtreeFrom(_, _)
SubtreeFrom(g, todo) ==
    IF todo = <<>> THEN <<>>
    ELSE <<Head(todo)>> \o SubtreeFrom(g, Tail(todo) \o At(g.children, Head(todo)))

Subtree(g, node) == SubtreeFrom(g, <<node>>)

\* Frees the Ids of a whole subtree: every freed node loses its children and
\* becomes its own parent, so a reused Id carries no stale edge.
free_subtree(g, node) ==
    LET freed == Subtree(g, node)
    IN  [g EXCEPT !.free_list = @ \o freed,
                  !.children = [i \in 1 .. Len(@) |->
                                   IF (i - 1) \in SeqRange(freed) THEN <<>> ELSE @[i]],
                  !.parent = [i \in 1 .. Len(@) |->
                                 IF (i - 1) \in SeqRange(freed) THEN i - 1 ELSE @[i]]]

\* ------------------------------------------------------------- geometry

RectDefault == [x |-> 0, y |-> 0, w |-> 0, h |-> 0]
with_size(r, size) == [r EXCEPT !.w = size[1], !.h = size[2]]
with_origin(r, pos) == [r EXCEPT !.x = pos[1], !.y = pos[2]]
origin(r) == <<r.x, r.y>>
PtSub(p, q) == <<p[1] - q[1], p[2] - q[2]>>
PtAdd(p, q) == <<p[1] + q[1], p[2] + q[2]>>

PerWidgetDefault == [anim_frame_requested |-> FALSE]

\* ------------------------------------------------------- box constraints

Min(a, b) == IF a < b THEN a ELSE b
Max(a, b) == IF a > b THEN a ELSE b

\* kurbo's Size::clamp: on each axis, self.max(min).min(max).
clamp(size, min, max) ==
    <<Min(Max(size[1], min[1]), max[1]), Min(Max(size[2], min[2]), max[2])>>

BoxConstraints_new(min, max) == [min |-> min, max |-> max]

tight(size) == [min |-> size, max |-> size]

\* Variant of constrain that does not clamp: C9 fails with it.
constrain_unclamped(bc, size) == size

constrain(bc, size) == clamp(size, bc.min, bc.max)

\* --------------------------------------------------------- layout context

\* The host window handle: whether connect has stored it, and the redraw
\* requests (WindowHandle::invalidate) the host has not yet answered by a
\* paint cycle.
HandleDefault == [connected |-> FALSE, invalidate |-> 0]

LayoutCtxNew ==
    [handle |-> HandleDefault,
     geom |-> <<>>,
     per_widget |-> <<>>,
     anim_state |-> "Idle",
     prev_paint_time |-> None,
     event_q |-> <<>>,
     focused |-> None,
     active |-> None,
     hot |-> None,
     size |-> <<0, 0>>]

UiNew == [widgets |-> <<>>, graph |-> GraphDefault, layout_ctx |-> LayoutCtxNew]

\* A listener closure: f names the closure; gen records which occupant of the
\* Id it was registered for (the number of deletions of that Id before the
\* add_listener call).
Listener(f, gen) == [f |-> f, gen |-> gen]
NoListener == Listener(0, 0)

EventItem(id, payload) ==
    [type |-> "Event", id |-> id, payload |-> payload, listener |-> NoListener]
AddListenerItem(id, listener) ==
    [type |-> "AddListener", id |-> id, payload |-> 0, listener |-> listener]
ClearListenersItem(id) ==
    [type |-> "ClearListeners", id |-> id, payload |-> 0, listener |-> NoListener]

\* Variant of invalidate that asks the host to redraw in every animation
\* state: C13 fails with it.
invalidate_always(lc) ==
    [lc EXCEPT !.handle.invalidate = @ + 1,
               !.anim_state = IF @ = "Idle" THEN "InvalidationRequested" ELSE @]

invalidate(lc) ==
    IF lc.anim_state = "Idle"
    THEN [lc EXCEPT !.handle.invalidate = @ + 1, !.anim_state = "InvalidationRequested"]
    ELSE lc

request_layout(lc) == invalidate(lc)

position_child(lc, child, pos) ==
    [lc EXCEPT !.geom = Put(@, child, with_origin(At(@, child), pos))]

\* ---------------------------------------------------------- handler context
\* The operations of HandlerCtx, on the layout context lc for the node id.

send_event(lc, id, a) == [lc EXCEPT !.event_q = Append(@, EventItem(id, a))]

set_active(lc, id, active) == [lc EXCEPT !.active = IF active THEN id ELSE None]

set_focused(lc, id, focused) == [lc EXCEPT !.focused = IF focused THEN id ELSE None]

\* Variant of request_anim_frame that does not invalidate when Idle: C11
\* fails with it.
request_anim_frame_quiet(lc, id) ==
    LET flagged == [lc EXCEPT !.per_widget = Put(@, id, [anim_frame_requested |-> TRUE])]
    IN  IF lc.anim_state = "AnimFrameStart"
        THEN [flagged EXCEPT !.anim_state = "AnimFrameRequested"]
        ELSE flagged

request_anim_frame(lc, id) ==
    LET flagged == [lc EXCEPT !.per_widget = Put(@, id, [anim_frame_requested |-> TRUE])]
    IN  CASE lc.anim_state = "Idle" -> invalidate(flagged)
          [] lc.anim_state = "AnimFrameStart" ->
                 [flagged EXCEPT !.anim_state = "AnimFrameRequested"]
          [] OTHER -> flagged

\* ----------------------------------------------------------------- widgets
\* The widgets are collaborators: a callback is any sequence of HandlerCtx
\* calls followed by its return value.  The tombstone NullWidget does nothing
\* and handles nothing.

CtxOp(op, arg) == [op |-> op, arg |-> arg]

CtxOpsAll ==
    {CtxOp("invalidate", None), CtxOp("request_layout", None), CtxOp("request_anim_frame", None)}
    \cup {CtxOp("send_event", p) : p \in Payloads}
    \cup {CtxOp("set_active", b) : b \in {0, 1}}
    \cup {CtxOp("set_focused", b) : b \in {0, 1}}

\* Largest number of HandlerCtx calls one widget callback makes.
MaxCtxOps == 1

SeqsUpTo(S, n) == UNION {[1 .. k -> S] : k \in 0 .. n}

Behaviours(ops) == [ops : SeqsUpTo(ops, MaxCtxOps), ret : BOOLEAN]

\* The behaviours of a callback that returns nothing.
VoidBehaviours(ops) == [ops : SeqsUpTo(ops, MaxCtxOps), ret : {FALSE}]

NullBehaviour == [ops |-> <<>>, ret |-> FALSE]

ApplyCtxOp(lc, id, o) ==
    CASE o.op = "invalidate" -> invalidate(lc)
      [] o.op = "request_layout" -> request_layout(lc)
      [] o.op = "request_anim_frame" -> request_anim_frame(lc, id)
      [] o.op = "send_event" -> send_event(lc, id, o.arg)
      [] o.op = "set_active" -> set_active(lc, id, o.arg = 1)
      [] o.op = "set_focused" -> set_focused(lc, id, o.arg = 1)

RECURSIVE RunCtxOps(_, _, _)
RunCtxOps(lc, id, ops) ==
    IF ops = <<>> THEN lc ELSE RunCtxOps(ApplyCtxOp(lc, id, Head(ops)), id, Tail(ops))

\* What the widget in slot id does when called with behaviour beh.
Behave(widgets, id, beh) == IF At(widgets, id) = "NullWidget" THEN NullBehaviour ELSE beh

\* One widget callback on node id with a HandlerCtx {id, layout_ctx}.
CallWidget(widgets, lc, id, beh) ==
    LET b == Behave(widgets, id, beh)
    IN  [lc |-> RunCtxOps(lc, id, b.ops), ret |-> b.ret]

\* A record of one widget callback made by an input handler.
\* ret is the value the callback returned, child the child it names, given
\* the child size it was handed and interval the elapsed time it was handed
\* (for the callbacks that have them).
Call(cb, node, pos, flag) ==
    [cb |-> cb, node |-> node, pos |-> pos, flag |-> flag, bc |-> tight(<<0, 0>>),
     ret |-> FALSE, child |-> None, given |-> <<None, None>>, interval |-> 0]

\* A record of one completed layout of node under the constraints bc; pos is
\* the size the widget returned.
LayoutCall(node, bc, size) ==
    [Call("layout", node, size, FALSE) EXCEPT !.bc = bc]

\* size: None of layout_rec.
NoSize == <<None, None>>

\* A record of one invocation of node's layout that was handed the child size
\* given and answered RequestChild(child, child_bc).
LayoutStep(node, given, child, child_bc) ==
    [Call("layout_step", node, <<0, 0>>, FALSE) EXCEPT
        !.given = given, !.child = child, !.bc = child_bc]

\* ---------------------------------------------------------------------- Ui

poke(ui, node, beh) ==
    LET r == CallWidget(ui.widgets, ui.layout_ctx, node, beh)
    IN  [ui |-> [ui EXCEPT !.layout_ctx = r.lc], ret |-> r.ret]

\* A record of one poke made by poke_up, with the value it returned.
PokeCall(node, ret) == [Call("poke", node, <<0, 0>>, FALSE) EXCEPT !.ret = ret]

\* Variant of the loop of poke_up that goes on after a poke returned true:
\* C21 fails with it.
RECURSIVE poke_up_all(_, _, _, _)
poke_up_all(ui, node, behs, fuel) ==
    LET parent == At(ui.graph.parent, node)
    IN  IF fuel = 0
        THEN [ui |-> ui, ret |-> FALSE, calls |-> <<>>, returned |-> FALSE]
        ELSE IF parent = node
        THEN [ui |-> ui, ret |-> FALSE, calls |-> <<>>, returned |-> TRUE]
        ELSE LET r == poke(ui, parent, behs[parent])
                 rest == poke_up_all(r.ui, parent, behs, fuel - 1)
             IN  [rest EXCEPT !.calls = <<PokeCall(parent, r.ret)>> \o @,
                              !.ret = r.ret \/ @]

\* The loop of ListenerCtx::poke_up from node, with the behaviour of each
\* widget's poke; fuel bounds the iterations unrolled, and returned tells
\* that the loop came to one of its return statements within them.
RECURSIVE poke_up_loop(_, _, _, _)
poke_up_loop(ui, node, behs, fuel) ==
    LET parent == At(ui.graph.parent, node)
    IN  IF fuel = 0
        THEN [ui |-> ui, ret |-> FALSE, calls |-> <<>>, returned |-> FALSE]
        ELSE IF parent = node
        THEN [ui |-> ui, ret |-> FALSE, calls |-> <<>>, returned |-> TRUE]
        ELSE LET r == poke(ui, parent, behs[parent])
             IN  IF r.ret
                 THEN [ui |-> r.ui, ret |-> TRUE,
                       calls |-> <<PokeCall(parent, TRUE)>>, returned |-> TRUE]
                 ELSE LET rest == poke_up_loop(r.ui, parent, behs, fuel - 1)
                      IN  [rest EXCEPT !.calls = <<PokeCall(parent, FALSE)>> \o @]

\* ListenerCtx::poke_up called by a listener whose node is id.
poke_up(ui, id, behs) == poke_up_loop(ui, id, behs, Len(ui.widgets) + 1)

RECURSIVE AppendChildren(_, _, _)
AppendChildren(g, id, children) ==
    IF children = <<>> THEN g
    ELSE AppendChildren(graph_append_child(g, id, Head(children)), id, Tail(children))

add(ui, children) ==
    LET a == alloc_node(ui.graph)
        id == a.id
        reuse == id < Len(ui.widgets)
        lc == ui.layout_ctx
    IN  [ui |-> [widgets |-> IF reuse THEN Put(ui.widgets, id, "Widget")
                             ELSE Append(ui.widgets, "Widget"),
                 graph |-> AppendChildren(a.graph, id, children),
                 layout_ctx |->
                     [lc EXCEPT !.geom = IF reuse THEN Put(@, id, RectDefault)
                                         ELSE Append(@, RectDefault),
                                !.per_widget = IF reuse THEN Put(@, id, PerWidgetDefault)
                                               ELSE Append(@, PerWidgetDefault)]],
         id |-> id]

set_root(ui, root) == [ui EXCEPT !.graph.root = root]

set_focus(ui, node) == [ui EXCEPT !.layout_ctx.focused = node]

add_listener(ui, node, f) ==
    [ui EXCEPT !.layout_ctx.event_q = Append(@, AddListenerItem(node, f))]

append_child(ui, node, child) ==
    [ui EXCEPT !.graph = graph_append_child(@, node, child),
               !.layout_ctx = request_layout(@)]

add_before(ui, node, sibling, child) ==
    [ui EXCEPT !.graph = graph_add_before(@, node, sibling, child),
               !.layout_ctx = request_layout(@)]

\* The widget callback made by remove_child: on_child_removed(child) on the
\* widget of node.
remove_child_calls(ui, node, child) ==
    <<[Call("on_child_removed", node, <<0, 0>>, FALSE) EXCEPT !.child = child]>>

\* Variant of remove_child that also queues the clearing of the child's
\* listeners: C12 fails with it.
remove_child_clearing(ui, node, child) ==
    [ui EXCEPT !.graph = graph_remove_child(@, node, child),
               !.layout_ctx = request_layout(
                   [@ EXCEPT !.event_q = Append(@, ClearListenersItem(child))])]

\* on_child_removed takes no context: the notification changes no state of
\* the core.
remove_child(ui, node, child) ==
    [ui EXCEPT !.graph = graph_remove_child(@, node, child),
               !.layout_ctx = request_layout(@)]

\* Variant of delete_rec that does not descend into the children: C5 fails
\* with it.
delete_rec_shallow(widgets, q, g, todo) ==
    [widgets |-> Put(widgets, Head(todo), "NullWidget"),
     q |-> Append(q, ClearListenersItem(Head(todo)))]

\* delete_rec: pre-order over the subtree, todo being the nodes still to visit.
RECURSIVE delete_rec(_, _, _, _)
delete_rec(widgets, q, g, todo) ==
    IF todo = <<>> THEN [widgets |-> widgets, q |-> q]
    ELSE LET node == Head(todo)
         IN  delete_rec(Put(widgets, node, "NullWidget"),
                        Append(q, ClearListenersItem(node)),
                        g,
                        At(g.children, node) \o Tail(todo))

\* Variant of delete_child that does not call remove_child: C7 fails with it.
delete_child_keep(ui, node, child) ==
    LET d == delete_rec(ui.widgets, ui.layout_ctx.event_q, ui.graph, <<child>>)
        tombstoned == [ui EXCEPT !.widgets = d.widgets, !.layout_ctx.event_q = d.q]
    IN  [tombstoned EXCEPT !.graph = free_subtree(@, child)]

delete_child(ui, node, child) ==
    LET d == delete_rec(ui.widgets, ui.layout_ctx.event_q, ui.graph, <<child>>)
        tombstoned == [ui EXCEPT !.widgets = d.widgets, !.layout_ctx.event_q = d.q]
        removed == remove_child(tombstoned, node, child)
    IN  [removed EXCEPT !.graph = free_subtree(@, child)]

\* ------------------------------------------------------------ input routing
Inside(p, g) == p[1] >= 0 /\ p[2] >= 0 /\ p[1] < g.w /\ p[2] < g.h

\* Variant of offset_of_widget that leaves the ancestors out: C2 fails with it.
offset_of_widget_own(ui, node) == origin(At(ui.layout_ctx.geom, node))

RECURSIVE offset_of_widget(_, _)
offset_of_widget(ui, node) ==
    LET g == At(ui.layout_ctx.geom, node)
        parent == At(ui.graph.parent, node)
    IN  IF parent = node THEN origin(g)
        ELSE PtAdd(origin(g), offset_of_widget(ui, parent))

dispatch_mouse(widgets, node, pos, lc, beh) ==
    LET r == CallWidget(widgets, lc, node, beh)
    IN  [lc |-> r.lc, handled |-> r.ret,
         calls |-> <<[Call("mouse", node, pos, FALSE) EXCEPT !.ret = r.ret]>>]

\* mouse_rec on node with the position in the space of node's parent; behs
\* gives the behaviour of each node's button handler.  mouse_children is the
\* loop over the children in reverse order.
RECURSIVE mouse_rec(_, _, _, _, _, _)
RECURSIVE mouse_children(_, _, _, _, _, _, _)
\* Variant of mouse_rec that tries the children in child-list order: C17
\* fails with it.
mouse_rec_forward(widgets, g, pos, node, lc, behs) ==
    LET gm == At(lc.geom, node)
        p == PtSub(pos, origin(gm))
    IN  IF Inside(p, gm)
        THEN LET d == dispatch_mouse(widgets, node, p, lc, behs[node])
                 c == mouse_children(widgets, g, p, At(g.children, node),
                                     d.lc, d.handled, behs)
             IN  [lc |-> c.lc, handled |-> c.handled, calls |-> d.calls \o c.calls]
        ELSE [lc |-> lc, handled |-> FALSE, calls |-> <<>>]

mouse_rec(widgets, g, pos, node, lc, behs) ==
    LET gm == At(lc.geom, node)
        p == PtSub(pos, origin(gm))
    IN  IF Inside(p, gm)
        THEN LET d == dispatch_mouse(widgets, node, p, lc, behs[node])
                 c == mouse_children(widgets, g, p, Reverse(At(g.children, node)),
                                     d.lc, d.handled, behs)
             IN  [lc |-> c.lc, handled |-> c.handled, calls |-> d.calls \o c.calls]
        ELSE [lc |-> lc, handled |-> FALSE, calls |-> <<>>]

mouse_children(widgets, g, p, rest, lc, handled, behs) ==
    IF rest = <<>> \/ handled
    THEN [lc |-> lc, handled |-> handled, calls |-> <<>>]
    ELSE LET r == mouse_rec(widgets, g, p, Head(rest), lc, behs)
             c == mouse_children(widgets, g, p, Tail(rest), r.lc, r.handled, behs)
         IN  [lc |-> c.lc, handled |-> c.handled, calls |-> r.calls \o c.calls]

\* UiState::mouse up to its call of dispatch_events.
mouse(ui, pos, behs) ==
    LET active == ui.layout_ctx.active
    IN  IF active # None
        THEN dispatch_mouse(ui.widgets, active, PtSub(pos, offset_of_widget(ui, active)),
                            ui.layout_ctx, behs[active])
        ELSE mouse_rec(ui.widgets, ui.graph, pos, ui.graph.root, ui.layout_ctx, behs)

\* Variant of child_hot that takes the last match of the loop instead of
\* breaking at the first: C18 fails with it.
child_hot_no_break(ui, rest, tpos) ==
    LET hits == {i \in 1 .. Len(rest) :
                    Inside(PtSub(tpos, origin(At(ui.layout_ctx.geom, rest[i]))),
                           At(ui.layout_ctx.geom, rest[i]))}
    IN  IF hits = {} THEN None
        ELSE rest[CHOOSE i \in hits : \A j \in hits : i >= j]

\* The first child, in reverse child-list order, whose rectangle contains
\* tpos (None when no child does).
child_hot(ui, rest, tpos) ==
    LET hits == {i \in 1 .. Len(rest) :
                    Inside(PtSub(tpos, origin(At(ui.layout_ctx.geom, rest[i]))),
                           At(ui.layout_ctx.geom, rest[i]))}
    IN  IF hits = {} THEN None
        ELSE rest[CHOOSE i \in hits : \A j \in hits : i <= j]

\* The loop of mouse_move that computes new_hot.
RECURSIVE new_hot_from(_, _, _)
new_hot_from(ui, node, pos) ==
    LET tpos == PtSub(pos, origin(At(ui.layout_ctx.geom, node)))
        children == At(ui.graph.children, node)
    IN  IF children = <<>> THEN node
        ELSE LET child == child_hot(ui, Reverse(children), tpos)
             IN  IF child # None THEN new_hot_from(ui, child, tpos) ELSE None

\* Variant of the test new_hot != old_hot that always succeeds: C4 fails with it.
hot_changed_always(ui, new_hot) == TRUE

\* The test new_hot != old_hot of mouse_move.
hot_changed(ui, new_hot) == new_hot # ui.layout_ctx.hot

\* The callbacks of mouse_move after new_hot is computed; bOld, bNew and bMove
\* are the behaviours of the three callbacks it may make.
mouse_move_calls(ui, pos, new_hot, bOld, bNew, bMove) ==
    LET old_hot == ui.layout_ctx.hot
        changed == hot_changed(ui, new_hot)
        lc0 == IF changed THEN [ui.layout_ctx EXCEPT !.hot = new_hot] ELSE ui.layout_ctx
        exit == IF changed /\ old_hot # None
                THEN [lc |-> CallWidget(ui.widgets, lc0, old_hot, bOld).lc,
                      calls |-> <<Call("on_hot_changed", old_hot, <<0, 0>>, FALSE)>>]
                ELSE [lc |-> lc0, calls |-> <<>>]
        enter == IF changed /\ new_hot # None
                 THEN [lc |-> CallWidget(ui.widgets, exit.lc, new_hot, bNew).lc,
                       calls |-> <<Call("on_hot_changed", new_hot, <<0, 0>>, TRUE)>>]
                 ELSE [lc |-> exit.lc, calls |-> <<>>]
        node == IF enter.lc.active # None THEN enter.lc.active ELSE new_hot
        move == IF node # None
                THEN [lc |-> CallWidget(ui.widgets, enter.lc, node, bMove).lc,
                      calls |-> <<Call("mouse_moved", node,
                                       PtSub(pos, offset_of_widget(ui, node)), FALSE)>>]
                ELSE [lc |-> enter.lc, calls |-> <<>>]
    IN  [lc |-> move.lc, handled |-> FALSE,
         calls |-> exit.calls \o enter.calls \o move.calls]

\* UiState::mouse_move up to its call of dispatch_events.
mouse_move(ui, pos, bOld, bNew, bMove) ==
    mouse_move_calls(ui, pos, new_hot_from(ui, ui.graph.root, pos), bOld, bNew, bMove)

\* handle_key_down, handle_key_up and handle_scroll up to their call of
\* dispatch_events; dispatch tells whether that call is made.
handle_key_down(ui, beh) ==
    LET id == ui.layout_ctx.focused
    IN  IF id # None
        THEN LET r == CallWidget(ui.widgets, ui.layout_ctx, id, beh)
             IN  [lc |-> r.lc, handled |-> r.ret, dispatch |-> TRUE,
                  calls |-> <<Call("key_down", id, <<0, 0>>, FALSE)>>]
        ELSE [lc |-> ui.layout_ctx, handled |-> FALSE, dispatch |-> FALSE, calls |-> <<>>]

handle_key_up(ui, beh) ==
    LET id == ui.layout_ctx.focused
    IN  IF id # None
        THEN [lc |-> CallWidget(ui.widgets, ui.layout_ctx, id, beh).lc,
              handled |-> FALSE, dispatch |-> TRUE,
              calls |-> <<Call("key_up", id, <<0, 0>>, FALSE)>>]
        ELSE [lc |-> ui.layout_ctx, handled |-> FALSE, dispatch |-> FALSE, calls |-> <<>>]

\* Variant of handle_scroll that routes to the focused node: C10 fails with it.
handle_scroll_focused(ui, beh) ==
    LET id == ui.layout_ctx.focused
    IN  IF id # None
        THEN [lc |-> CallWidget(ui.widgets, ui.layout_ctx, id, beh).lc,
              handled |-> FALSE, dispatch |-> TRUE,
              calls |-> <<Call("scroll", id, <<0, 0>>, FALSE)>>]
        ELSE [lc |-> ui.layout_ctx, handled |-> FALSE, dispatch |-> FALSE, calls |-> <<>>]

handle_scroll(ui, beh) ==
    LET id == ui.layout_ctx.hot
    IN  IF id # None
        THEN [lc |-> CallWidget(ui.widgets, ui.layout_ctx, id, beh).lc,
              handled |-> FALSE, dispatch |-> TRUE,
              calls |-> <<Call("scroll", id, <<0, 0>>, FALSE)>>]
        ELSE [lc |-> ui.layout_ctx, handled |-> FALSE, dispatch |-> FALSE, calls |-> <<>>]

\* ------------------------------------------------------------ paint cycle

\* The nodes whose wants-a-frame flag is set.
Wanting(lc) == {n \in IdsOf(lc.per_widget) : At(lc.per_widget, n).anim_frame_requested}

\* Variant of interval that measures from the last paint in every case (from
\* the epoch when there was none): C16 fails with it.
interval_always(lc, this_paint_time) ==
    this_paint_time - (IF lc.prev_paint_time # None THEN lc.prev_paint_time ELSE 0)

\* The elapsed time handed to the anim_frame callbacks of the frame.
interval(lc, this_paint_time) ==
    IF lc.prev_paint_time # None THEN this_paint_time - lc.prev_paint_time ELSE 0

\* The loop of anim_frame over the slots node .. len-1; behs gives the
\* behaviour of each widget's anim_frame callback.
\* A record of one anim_frame callback on node, made with the layout context
\* lc: flag is the node's wants-a-frame flag as the callback finds it, and
\* elapsed the interval it is handed.
AnimCall(lc, node, elapsed) ==
    [Call("anim_frame", node, <<0, 0>>, At(lc.per_widget, node).anim_frame_requested)
        EXCEPT !.interval = elapsed]

\* Variant of clear_flag that leaves the flag set: C15 fails with it.
keep_flag(lc, node) == lc

\* per_widget[node].anim_frame_requested = false
clear_flag(lc, node) ==
    [lc EXCEPT !.per_widget = Put(@, node, [anim_frame_requested |-> FALSE])]

RECURSIVE anim_frame_from(_, _, _, _, _)
anim_frame_from(widgets, lc, node, elapsed, behs) ==
    IF node >= Len(widgets) THEN [lc |-> lc, calls |-> <<>>]
    ELSE IF At(lc.per_widget, node).anim_frame_requested
         THEN LET cleared == clear_flag(lc, node)
                  r == CallWidget(widgets, cleared, node, behs[node])
                  rest == anim_frame_from(widgets, r.lc, node + 1, elapsed, behs)
              IN  [lc |-> rest.lc,
                   calls |-> <<AnimCall(cleared, node, elapsed)>> \o rest.calls]
         ELSE anim_frame_from(widgets, lc, node + 1, elapsed, behs)

\* UiState::anim_frame up to its call of dispatch_events; this_paint_time is
\* what Instant::now() returns.
anim_frame(ui, this_paint_time, behs) ==
    LET elapsed == interval(ui.layout_ctx, this_paint_time)
        started == [ui.layout_ctx EXCEPT !.anim_state = "AnimFrameStart"]
        r == anim_frame_from(ui.widgets, started, 0, elapsed, behs)
    IN  [lc |-> [r.lc EXCEPT !.prev_paint_time = this_paint_time],
         handled |-> FALSE, dispatch |-> TRUE, calls |-> r.calls]

\* What the layout callback of one widget does over its successive
\* invocations: it requests each of its children in child-list order under
\* child_bc, and then returns the size it wants, constrained; at is the
\* origin its parent gives it (position_child) on receiving its size.
LayoutBeh(want, child_bc, at) == [want |-> want, child_bc |-> child_bc, at |-> at]

\* layout_rec on node under bc; lays gives the layout behaviour of each
\* widget.  layout_children is the part of the loop that serves the requests
\* of the widget of the parent.
\* Each invocation of a widget's layout leaves a record: LayoutStep when it
\* answers RequestChild(child, child_bc), LayoutCall when it answers Size;
\* given is the child size it was handed (<<None, None>> for no size), and
\* the flag of a LayoutCall tells that recording the size left the origin of
\* the node's rectangle as it was.
RECURSIVE layout_rec(_, _, _, _, _)
RECURSIVE layout_children(_, _, _, _, _, _)
RECURSIVE layout_children_blind(_, _, _, _, _, _)
layout_rec(lc, g, bc, node, lays) ==
    LET c == layout_children(lc, g, node, At(g.children, node), NoSize, lays)
        size == constrain(bc, At(lays, node).want)
        recorded == with_size(At(c.lc.geom, node), size)
    IN  [lc |-> [c.lc EXCEPT !.geom = Put(@, node, recorded)],
         size |-> size,
         calls |-> c.calls \o <<[LayoutCall(node, bc, size) EXCEPT
                                    !.given = c.given,
                                    !.flag = origin(recorded) = origin(At(c.lc.geom, node))]>>]

\* Variant of the loop that hands the widget no child size on any
\* invocation: C19 fails with it.
layout_children_blind(lc, g, node, rest, given, lays) ==
    IF rest = <<>> THEN [lc |-> lc, calls |-> <<>>, given |-> given]
    ELSE LET r == layout_rec(lc, g, At(lays, node).child_bc, Head(rest), lays)
             placed == position_child(r.lc, Head(rest), At(lays, Head(rest)).at)
             c == layout_children_blind(placed, g, node, Tail(rest), NoSize, lays)
         IN  [lc |-> c.lc,
              calls |-> <<LayoutStep(node, given, Head(rest), At(lays, node).child_bc)>>
                        \o r.calls \o c.calls,
              given |-> c.given]

\* The invocations of node's widget that answer RequestChild, for the
\* children rest still to request; given is the size the invocation is
\* handed, and the widget places a child when it is handed its size.
layout_children(lc, g, node, rest, given, lays) ==
    IF rest = <<>> THEN [lc |-> lc, calls |-> <<>>, given |-> given]
    ELSE LET r == layout_rec(lc, g, At(lays, node).child_bc, Head(rest), lays)
             placed == position_child(r.lc, Head(rest), At(lays, Head(rest)).at)
             c == layout_children(placed, g, node, Tail(rest), r.size, lays)
         IN  [lc |-> c.lc,
              calls |-> <<LayoutStep(node, given, Head(rest), At(lays, node).child_bc)>>
                        \o r.calls \o c.calls,
              given |-> c.given]

layout(ui, bc, root, lays) == layout_rec(ui.layout_ctx, ui.graph, bc, root, lays)

\* paint_rec: pre-order, each widget painted at its absolute origin; the flag
\* of the record is what PaintCtx::is_hot tells the widget.
RECURSIVE paint_rec(_, _, _)
RECURSIVE paint_children(_, _, _)
RECURSIVE paint_children_last_first(_, _, _)
paint_rec(ui, node, pos) ==
    LET lc == ui.layout_ctx
        abs == PtAdd(origin(At(lc.geom, node)), pos)
        is_active == lc.active = node
        is_hot == lc.hot = node /\ (is_active \/ lc.active = None)
    IN  <<Call("paint", node, abs, is_hot)>>
        \o paint_children(ui, At(ui.graph.children, node), abs)

\* Variant of the loop over the children that paints the last child first:
\* C20 fails with it.
paint_children_last_first(ui, rest, pos) ==
    IF rest = <<>> THEN <<>>
    ELSE paint_rec(ui, Last(rest), pos) \o paint_children_last_first(ui, Front(rest), pos)

paint_children(ui, rest, pos) ==
    IF rest = <<>> THEN <<>>
    ELSE paint_rec(ui, Head(rest), pos) \o paint_children(ui, Tail(rest), pos)

paint(ui, root) == paint_rec(ui, root, <<0, 0>>)

\* Variant of paint_frame that keeps the last-paint timestamp when it
\* returns false: C14 fails with it.
paint_frame_timed(ui, lays) ==
    LET root == ui.graph.root
        l == layout(ui, tight(ui.layout_ctx.size), root, lays)
        p == paint([ui EXCEPT !.layout_ctx = l.lc], root)
        again == l.lc.anim_state = "AnimFrameRequested"
    IN  [lc |-> IF again THEN l.lc ELSE [l.lc EXCEPT !.anim_state = "Idle"],
         again |-> again,
         calls |-> l.calls \o p]

\* Variant of paint_frame that goes back to Idle whatever the animation
\* state: C26 fails with it.
paint_frame_reset(ui, lays) ==
    LET root == ui.graph.root
        l == layout(ui, tight(ui.layout_ctx.size), root, lays)
        p == paint([ui EXCEPT !.layout_ctx = l.lc], root)
    IN  [lc |-> [l.lc EXCEPT !.anim_state = "Idle", !.prev_paint_time = None],
         again |-> l.lc.anim_state = "AnimFrameRequested",
         calls |-> l.calls \o p]

\* WinHandler::paint after anim_frame: layout under tight constraints of the
\* window size, paint, and the reset of the animation state; again is the
\* value returned to the host.
paint_frame(ui, lays) ==
    LET root == ui.graph.root
        l == layout(ui, tight(ui.layout_ctx.size), root, lays)
        p == paint([ui EXCEPT !.layout_ctx = l.lc], root)
        again == l.lc.anim_state = "AnimFrameRequested"
    IN  [lc |-> IF again THEN l.lc
                ELSE [l.lc EXCEPT !.anim_state = "Idle", !.prev_paint_time = None],
         again |-> again,
         calls |-> l.calls \o p]

\* WinHandler::size: the window size in pixels scaled to 96 dpi.
WinHandler_size(ui, width, height, dpi) ==
    [ui EXCEPT !.layout_ctx.size = <<(width * 96) \div dpi, (height * 96) \div dpi>>]

\* ------------------------------------------------------------- dispatch
\* The effect of one AddListener / ClearListeners item on the registry.

\* Variant of the push that puts the listener first: C8 fails with it.
push_listener_front(ls, id, listener) == [ls EXCEPT ![id] = <<listener>> \o @]

push_listener(ls, id, listener) == [ls EXCEPT ![id] = Append(@, listener)]

clear_listeners(ls, id) == [ls EXCEPT ![id] = <<>>]

\* Variant of take_queue that hands the items over last first: C23 fails
\* with it.
take_queue_reversed(q) == [batch |-> Reverse(q), event_q |-> <<>>]

\* mem::replace(&mut event_q, Vec::new()): the batch taken and the queue left.
take_queue(q) == [batch |-> q, event_q |-> <<>>]

\* ------------------------------------------------------------------ state

VARIABLES
    listeners,          \* UiState.listeners: Id -> sequence of listeners
    command_listener,   \* UiState.command_listener is Some
    inner,              \* UiState.inner: the Ui (widgets, graph, layout_ctx)
    pc,                 \* where the running host callback (or the builder) is
    entry,              \* the host callback running, or the last one that returned
    batch,              \* dispatch_events: the items of the taken queue not yet processed
    lidx,               \* dispatch_events: index of the next listener of the current item
    opsLeft,            \* Ui operations the running user code may still perform
    ev,                 \* the input event being handled, with the singletons before it
    calls,              \* the widget callbacks the input handler has made
    invoked,            \* the listeners invoked so far for the current item
    pending,            \* per Id, the payloads sent and not yet delivered, in sending order
    gen,                \* per Id, how many times the Id has been deleted
    registered,         \* number of add_listener calls so far
    deletes,            \* number of delete_child calls so far
    host                \* the host: its clock and what the last paint cycle told it

uistate == <<listeners, command_listener, inner>>
control == <<pc, entry, batch, lidx, opsLeft>>
history == <<ev, calls, invoked, pending, gen, registered, deletes>>
vars == <<listeners, command_listener, inner, pc, entry, batch, lidx, opsLeft,
          ev, calls, invoked, pending, gen, registered, deletes, host>>

\* The host before the first paint cycle: animating tells that the last paint
\* cycle returned true, painted_at is the time at which it began.
HostNew == [clock |-> 0, animating |-> FALSE, painted_at |-> None]

layout_ctx == inner.layout_ctx

\* Instant::now() of the frame being painted.
ThisPaintTime == host.clock
graph == inner.graph

NoEvent ==
    [kind |-> "none", pos |-> <<0, 0>>, active |-> None, hot |-> None, focused |-> None,
     handled |-> FALSE, dispatch |-> FALSE, wants |-> {}]

Live(ui, id) == id \in IdsOf(ui.widgets) /\ id \notin SeqRange(ui.graph.free_list)
LiveIds(ui) == {id \in IdsOf(ui.widgets) : Live(ui, id)}

\* A live node that is in no child list.
Detached(ui, id) ==
    /\ Live(ui, id)
    /\ At(ui.graph.parent, id) = id
    /\ \A n \in IdsOf(ui.widgets) : id \notin SeqRange(At(ui.graph.children, n))

\* The payloads of the Event items appended to the queue, added to pending.
RECURSIVE Sent(_, _)
Sent(pend, items) ==
    IF items = <<>> THEN pend
    ELSE LET it == Head(items)
         IN  Sent(IF it.type = "Event" THEN [pend EXCEPT ![it.id] = Append(@, it.payload)]
                  ELSE pend,
                  Tail(items))

Grown(q, q2) == SubSeq(q2, Len(q) + 1, Len(q2))

\* The step changes the Ui to ui2: the queue stays within its bound, and the
\* payloads it sent are recorded.
UiStep(ui2) ==
    /\ Len(batch) + Len(ui2.layout_ctx.event_q) <= MaxQueue
    /\ inner' = ui2
    /\ pending' = Sent(pending, Grown(layout_ctx.event_q, ui2.layout_ctx.event_q))

Init ==
    /\ listeners = [id \in Ids |-> <<>>]
    /\ command_listener = FALSE
    /\ inner = UiNew
    /\ pc = "build"
    /\ entry = "new"
    /\ batch = <<>>
    /\ lidx = 1
    /\ opsLeft = MaxBuildOps
    /\ ev = NoEvent
    /\ calls = <<>>
    /\ invoked = <<>>
    /\ pending = [id \in Ids |-> <<>>]
    /\ gen = [id \in Ids |-> 0]
    /\ registered = 0
    /\ deletes = 0
    /\ host = HostNew

\* -------------------------------------------------- code with access to Ui
\* The builder (before connect), a listener and the command listener hold a
\* mutable Ui and call its operations, one per step.  The arguments respect
\* the operations' contracts: Ids are live, an attached child is detached
\* before, a removed or deleted child is a child of the node, and no cycle is
\* made.

UiAccess == pc \in {"build", "listener", "command"} /\ opsLeft > 0

UiOpDone ==
    /\ opsLeft' = opsLeft - 1
    /\ UNCHANGED <<host, listeners, command_listener, pc, entry, batch, lidx,
                   ev, invoked>>

\* child may be attached under node.
Attachable(ui, node, child) ==
    /\ Live(ui, node)
    /\ Detached(ui, child)
    /\ pc # "build" => child # ui.graph.root
    /\ node \notin SeqRange(Subtree(ui.graph, child))

NoDuplicates(s) == \A i, j \in 1 .. Len(s) : i # j => s[i] # s[j]

DoAdd ==
    /\ UiAccess
    /\ Len(inner.widgets) < MaxNodes \/ graph.free_list # <<>>
    /\ \E children \in SeqsUpTo({c \in Ids : Detached(inner, c)}, 2) :
          /\ NoDuplicates(children)
          /\ pc # "build" => graph.root \notin SeqRange(children)
          /\ UiStep(add(inner, children).ui)
    /\ UiOpDone
    /\ UNCHANGED <<calls, gen, registered, deletes>>

DoSetRoot ==
    /\ UiAccess
    /\ pc = "build"
    /\ \E root \in LiveIds(inner) : UiStep(set_root(inner, root))
    /\ UiOpDone
    /\ UNCHANGED <<calls, gen, registered, deletes>>

DoSetFocus ==
    /\ UiAccess
    /\ \E node \in LiveIds(inner) \cup {None} : UiStep(set_focus(inner, node))
    /\ UiOpDone
    /\ UNCHANGED <<calls, gen, registered, deletes>>

DoAddListener ==
    /\ UiAccess
    /\ registered < MaxListeners
    /\ \E node \in LiveIds(inner) :
          UiStep(add_listener(inner, node, Listener(registered + 1, gen[node])))
    /\ registered' = registered + 1
    /\ UiOpDone
    /\ UNCHANGED <<calls, gen, deletes>>

DoAppendChild ==
    /\ UiAccess
    /\ \E node, child \in Ids :
          /\ Attachable(inner, node, child)
          /\ UiStep(append_child(inner, node, child))
    /\ UiOpDone
    /\ UNCHANGED <<calls, gen, registered, deletes>>

DoAddBefore ==
    /\ UiAccess
    /\ \E node, child \in Ids :
          /\ Attachable(inner, node, child)
          /\ \E sibling \in SeqRange(At(graph.children, node)) :
                UiStep(add_before(inner, node, sibling, child))
    /\ UiOpDone
    /\ UNCHANGED <<calls, gen, registered, deletes>>

DoRemoveChild ==
    /\ UiAccess
    /\ \E node \in LiveIds(inner) :
          \E child \in SeqRange(At(graph.children, node)) :
             /\ UiStep(remove_child(inner, node, child))
             /\ calls' = calls \o remove_child_calls(inner, node, child)
    /\ UiOpDone
    /\ UNCHANGED <<gen, registered, deletes>>

DoDeleteChild ==
    /\ UiAccess
    /\ deletes < MaxDeletes
    /\ \E node \in LiveIds(inner) :
          \E child \in SeqRange(At(graph.children, node)) :
             /\ UiStep(delete_child(inner, node, child))
             /\ calls' = calls \o remove_child_calls(inner, node, child)
             /\ gen' = [id \in Ids |->
                           IF id \in SeqRange(Subtree(graph, child)) THEN gen[id] + 1
                           ELSE gen[id]]
    /\ deletes' = deletes + 1
    /\ UiOpDone
    /\ UNCHANGED registered

DoPoke(ops) ==
    /\ UiAccess
    /\ \E node \in IdsOf(inner.widgets), beh \in VoidBehaviours(ops) :
          UiStep(poke(inner, node, beh).ui)
    /\ UiOpDone
    /\ UNCHANGED <<calls, gen, registered, deletes>>

DoSetCommandListener ==
    /\ pc = "build"
    /\ ~command_listener
    /\ command_listener' = TRUE
    /\ UNCHANGED <<host, listeners, inner, control, history>>

\* ----------------------------------------------------------- host callbacks

\* WinHandler::connect: store the handle, then dispatch_events.
Connect ==
    /\ pc = "build"
    /\ inner.widgets # <<>>
    /\ Detached(inner, graph.root)
    /\ inner' = [inner EXCEPT !.layout_ctx.handle.connected = TRUE]
    /\ pc' = "dispatch"
    /\ entry' = "connect"
    /\ opsLeft' = 0
    /\ UNCHANGED <<host, listeners, command_listener, batch, lidx, history>>

\* An input handler has run its widget code with result r.
Handled(name, pos, r) ==
    /\ pc = "idle"
    /\ Len(r.lc.event_q) <= MaxQueue
    /\ inner' = [inner EXCEPT !.layout_ctx = r.lc]
    /\ pending' = Sent(pending, Grown(layout_ctx.event_q, r.lc.event_q))
    /\ pc' = "handled"
    /\ entry' = name
    /\ ev' = [kind |-> name, pos |-> pos, active |-> layout_ctx.active,
              hot |-> layout_ctx.hot, focused |-> layout_ctx.focused,
              handled |-> r.handled, dispatch |-> r.dispatch,
              wants |-> Wanting(layout_ctx)]
    /\ calls' = r.calls
    /\ UNCHANGED <<host, listeners, command_listener, batch, lidx, opsLeft,
                   invoked, gen, registered, deletes>>

Dispatching(r) == [lc |-> r.lc, handled |-> r.handled, calls |-> r.calls, dispatch |-> TRUE]

Positions == Coords \X Coords

\* The behaviours to choose from for a callback: none when it is not made.
If(made, behaviours) == IF made THEN behaviours ELSE {NullBehaviour}

\* The sequences of n behaviours, one per Id: one of behaviours for the Ids
\* of made, none for the others.
RECURSIVE PerId(_, _, _)
PerId(n, made, behaviours) ==
    IF n = 0 THEN {<<>>}
    ELSE {Append(s, b) : s \in PerId(n - 1, made, behaviours),
                         b \in If((n - 1) \in made, behaviours)}

\* The node of the ListenerCtx handed to the code that runs: the Id of the
\* item being delivered, the root for the command listener.
CtxId == IF pc = "listener" THEN Head(batch).id ELSE graph.root

\* poke_up called by a listener: the record of its return, with the value
\* returned, follows those of the pokes it made.
DoPokeUp(ops) ==
    /\ UiAccess
    /\ pc \in {"listener", "command"}
    /\ LET quiet == poke_up(inner, CtxId, [n \in Ids |-> NullBehaviour]).calls
           reached == {quiet[i].node : i \in 1 .. Len(quiet)}
       IN  \E s \in PerId(MaxNodes, reached, Behaviours(ops)) :
              LET r == poke_up(inner, CtxId, [n \in Ids |-> At(s, n)])
              IN  /\ UiStep(r.ui)
                  /\ calls' = calls \o r.calls
                               \o <<[Call("poke_up", CtxId, <<0, 0>>, r.returned)
                                        EXCEPT !.ret = r.ret]>>
    /\ UiOpDone
    /\ UNCHANGED <<gen, registered, deletes>>

\* A pointer-button event at one of the positions; ops are the HandlerCtx
\* calls the button handlers choose from.
MouseOn(positions, ops) ==
    /\ pc = "idle"
    /\ \E pos \in positions :
          LET quiet == mouse(inner, pos, [n \in Ids |-> NullBehaviour]).calls
              reached == {quiet[i].node : i \in 1 .. Len(quiet)}
          IN  \E s \in PerId(MaxNodes, reached, Behaviours(ops)) :
                 Handled("mouse", pos,
                         Dispatching(mouse(inner, pos, [n \in Ids |-> At(s, n)])))

\* A pointer-motion event at one of the positions.
MouseMoveOn(positions, ops) ==
    /\ pc = "idle"
    /\ \E pos \in positions :
          LET new_hot == new_hot_from(inner, graph.root, pos)
              changed == hot_changed(inner, new_hot)
          IN  \E bOld \in If(changed /\ layout_ctx.hot # None, VoidBehaviours(ops)),
                 bNew \in If(changed /\ new_hot # None, VoidBehaviours(ops)),
                 bMove \in VoidBehaviours(ops) :
                 Handled("mouse_move", pos,
                         Dispatching(mouse_move(inner, pos, bOld, bNew, bMove)))

KeyDown(ops) ==
    /\ pc = "idle"
    /\ \E beh \in If(layout_ctx.focused # None, Behaviours(ops)) :
          Handled("key_down", <<0, 0>>, handle_key_down(inner, beh))

KeyUp(ops) ==
    /\ pc = "idle"
    /\ \E beh \in If(layout_ctx.focused # None, VoidBehaviours(ops)) :
          Handled("key_up", <<0, 0>>, handle_key_up(inner, beh))

Scroll(ops) ==
    /\ pc = "idle"
    /\ \E beh \in If(layout_ctx.hot # None, VoidBehaviours(ops)) :
          Handled("scroll", <<0, 0>>, handle_scroll(inner, beh))

\* handle_command: the command listener runs with a ListenerCtx on the root;
\* without a listener the command is logged and dropped.
Command ==
    /\ pc = "idle"
    /\ entry' = "command"
    /\ ev' = [NoEvent EXCEPT !.kind = "command"]
    /\ calls' = <<>>
    /\ IF command_listener
       THEN pc' = "command" /\ opsLeft' = MaxListenerOps
       ELSE pc' = "handled" /\ opsLeft' = 0
    /\ UNCHANGED <<host, listeners, command_listener, inner, batch, lidx,
                   invoked, pending, gen, registered, deletes>>

\* The command listener returns; handle_command returns without dispatch_events.
CommandReturn ==
    /\ pc = "command"
    /\ pc' = "handled"
    /\ opsLeft' = 0
    /\ UNCHANGED <<host, listeners, command_listener, inner, entry, batch, lidx, history>>

\* UiMain::send_ext: the closure the host runs when idle pokes the widget
\* and returns.
IdlePoke(ops) ==
    /\ pc = "idle"
    /\ \E node \in IdsOf(inner.widgets), beh \in VoidBehaviours(ops) :
          UiStep(poke(inner, node, beh).ui)
    /\ UNCHANGED <<host, listeners, command_listener, pc, entry, batch, lidx, opsLeft,
                   ev, calls, invoked, gen, registered, deletes>>

\* WinHandler::size with one of the given <<width, height, dpi>>.
SizeTo(dims) ==
    /\ pc = "idle"
    /\ \E d \in dims : inner' = WinHandler_size(inner, d[1], d[2], d[3])
    /\ UNCHANGED <<host, listeners, command_listener, control, history>>

\* The widgets the layout pass reaches.
Painted(ui) == SeqRange(Subtree(ui.graph, ui.graph.root))

\* The layout behaviours of the first n slots: a widget the pass reaches
\* wants one of wants and, when it has children, gives them one of bcs; a
\* child is placed at one of origins.
RECURSIVE Lays(_, _, _, _, _)
Lays(ui, n, wants, bcs, origins) ==
    IF n = 0 THEN {<<>>}
    ELSE LET node == n - 1
             reached == node \in Painted(ui)
             parent == reached /\ At(ui.graph.children, node) # <<>>
             child == reached /\ node # ui.graph.root
         IN  {Append(s, LayoutBeh(w, b, o)) :
                 s \in Lays(ui, n - 1, wants, bcs, origins),
                 w \in IF reached THEN wants ELSE {<<0, 0>>},
                 b \in IF parent THEN bcs ELSE {tight(<<0, 0>>)},
                 o \in IF child THEN origins ELSE {<<0, 0>>}}

\* WinHandler::paint, first part: anim_frame up to its dispatch_events; ops
\* are the HandlerCtx calls the anim_frame callbacks choose from.  The paint
\* cycle serves the redraw requests the host has received.
PaintBegin(ops) ==
    /\ pc = "idle"
    /\ graph.root \in IdsOf(inner.widgets)
    /\ \A n \in Painted(inner) : At(inner.widgets, n) # "NullWidget"
    /\ LET flagged == {n \in IdsOf(inner.widgets) :
                          At(layout_ctx.per_widget, n).anim_frame_requested}
           served == [inner EXCEPT !.layout_ctx.handle.invalidate = 0]
       IN  \E s \in PerId(MaxNodes, flagged, VoidBehaviours(ops)) :
              Handled("paint", <<0, 0>>,
                      anim_frame(served, ThisPaintTime, [n \in Ids |-> At(s, n)]))

\* WinHandler::paint, second part: layout, paint and the animation state.
PaintLayout(wants, bcs, origins) ==
    /\ pc = "layout"
    /\ \E lays \in Lays(inner, Len(inner.widgets), wants, bcs, origins) :
          LET r == paint_frame(inner, lays)
          IN  /\ inner' = [inner EXCEPT !.layout_ctx = r.lc]
              /\ calls' = calls \o r.calls
              /\ ev' = [ev EXCEPT !.handled = r.again]
    /\ pc' = "painted"
    /\ UNCHANGED <<host, listeners, command_listener, entry, batch, lidx, opsLeft,
                   invoked, pending, gen, registered, deletes>>

PaintReturn ==
    /\ pc = "painted"
    /\ pc' = "idle"
    /\ entry' = "none"
    /\ ev' = NoEvent
    /\ calls' = <<>>
    /\ host' = [host EXCEPT !.animating = ev.handled, !.painted_at = host.clock]
    /\ UNCHANGED <<listeners, command_listener, inner, batch, lidx, opsLeft,
                   invoked, pending, gen, registered, deletes>>

\* Time passes between two host callbacks.
Tick ==
    /\ pc = "idle"
    /\ host.clock < MaxClock
    /\ host' = [host EXCEPT !.clock = @ + 1]
    /\ UNCHANGED <<listeners, command_listener, inner, control, history>>

\* ------------------------------------------------------- dispatch_events
\* The head of the while loop; a handler that does not call dispatch_events
\* returns from here at once, and paint goes on to its layout pass.
LoopHead ==
    /\ pc \in {"handled", "dispatch"}
    /\ IF (pc = "dispatch" \/ ev.dispatch) /\ layout_ctx.event_q # <<>>
       THEN LET t == take_queue(layout_ctx.event_q)
            IN  /\ batch' = t.batch
                /\ inner' = [inner EXCEPT !.layout_ctx.event_q = t.event_q]
                /\ pc' = "batch"
                /\ UNCHANGED <<entry, ev, calls>>
       ELSE /\ IF entry = "paint"
               THEN pc' = "layout" /\ UNCHANGED <<entry, ev, calls>>
               ELSE pc' = "idle" /\ entry' = "none" /\ ev' = NoEvent /\ calls' = <<>>
            /\ UNCHANGED <<batch, inner>>
    /\ lidx' = 1
    /\ UNCHANGED <<host, listeners, command_listener, opsLeft,
                   invoked, pending, gen, registered, deletes>>

\* Event::Event: call the next listener registered for the item's Id.
InvokeListener ==
    /\ pc = "batch" /\ batch # <<>>
    /\ Head(batch).type = "Event"
    /\ lidx <= Len(listeners[Head(batch).id])
    /\ pc' = "listener"
    /\ opsLeft' = MaxListenerOps
    /\ invoked' = Append(invoked, listeners[Head(batch).id][lidx])
    /\ UNCHANGED <<host, listeners, command_listener, inner, entry, batch, lidx,
                   ev, calls, pending, gen, registered, deletes>>

ListenerReturn ==
    /\ pc = "listener"
    /\ pc' = "batch"
    /\ lidx' = lidx + 1
    /\ opsLeft' = 0
    /\ UNCHANGED <<host, listeners, command_listener, inner, entry, batch, history>>

\* Event::Event: every listener of the item has run (or none is registered).
EventDone ==
    /\ pc = "batch" /\ batch # <<>>
    /\ Head(batch).type = "Event"
    /\ lidx > Len(listeners[Head(batch).id])
    /\ batch' = Tail(batch)
    /\ lidx' = 1
    /\ invoked' = <<>>
    /\ pending' = [pending EXCEPT ![Head(batch).id] = Tail(@)]
    /\ UNCHANGED <<host, listeners, command_listener, inner, pc, entry, opsLeft,
                   ev, calls, gen, registered, deletes>>

AddListenerItemDone ==
    /\ pc = "batch" /\ batch # <<>>
    /\ Head(batch).type = "AddListener"
    /\ listeners' = push_listener(listeners, Head(batch).id, Head(batch).listener)
    /\ batch' = Tail(batch)
    /\ UNCHANGED <<host, command_listener, inner, pc, entry, lidx, opsLeft, history>>

ClearListenersItemDone ==
    /\ pc = "batch" /\ batch # <<>>
    /\ Head(batch).type = "ClearListeners"
    /\ listeners' = clear_listeners(listeners, Head(batch).id)
    /\ batch' = Tail(batch)
    /\ UNCHANGED <<host, command_listener, inner, pc, entry, lidx, opsLeft, history>>

\* The for loop over the taken batch has ended: back to the loop head.
BatchDone ==
    /\ pc = "batch" /\ batch = <<>>
    /\ pc' = "dispatch"
    /\ UNCHANGED <<host, listeners, command_listener, inner, entry, batch, lidx, opsLeft, history>>

\* ------------------------------------------------------------ specification

DispatchEvents ==
    \/ LoopHead
    \/ InvokeListener
    \/ ListenerReturn
    \/ EventDone
    \/ AddListenerItemDone
    \/ ClearListenersItemDone
    \/ BatchDone

SendOps == {CtxOp("send_event", p) : p \in Payloads}
SendOne == {CtxOp("send_event", 1)}

\* The builder: it makes the tree, sets the root and the focus and registers
\* listeners, before the window is connected.
Build ==
    \/ pc = "build" /\ DoAdd
    \/ pc = "build" /\ DoSetRoot
    \/ pc = "build" /\ DoSetFocus
    \/ pc = "build" /\ DoAddListener
    \/ pc = "build" /\ DoSetCommandListener

\* Deletion and re-allocation: after connect, key and command callbacks
\* arrive; the focused widget sends events; the listeners and the command
\* listener delete subtrees, add nodes, register listeners and poke widgets,
\* which send events in turn.
Listen ==
    \/ pc \in {"listener", "command"} /\ DoAdd
    \/ pc \in {"listener", "command"} /\ DoDeleteChild
    \/ pc \in {"listener", "command"} /\ DoAddListener
    \/ pc \in {"listener", "command"} /\ DoPoke(SendOne)

Next ==
    \/ Build
    \/ Connect
    \/ Listen
    \/ KeyDown(SendOne)
    \/ Command
    \/ CommandReturn
    \/ DispatchEvents

Spec == Init /\ [][Next]_vars

\* Delivery: as above without deletion, with two payloads, and with pokes
\* from the host's idle queue (send_ext).  Without delete_child no
\* ClearListeners item is ever queued.
ListenDeliver ==
    \/ pc \in {"listener", "command"} /\ DoAddListener
    \/ pc \in {"listener", "command"} /\ DoPoke(SendOps)

NextDeliver ==
    \/ Build
    \/ Connect
    \/ ListenDeliver
    \/ KeyDown(SendOps)
    \/ Command
    \/ CommandReturn
    \/ IdlePoke(SendOps)
    \/ LoopHead
    \/ InvokeListener
    \/ ListenerReturn
    \/ EventDone
    \/ AddListenerItemDone
    \/ BatchDone

SpecDeliver == Init /\ [][NextDeliver]_vars

\* Tree editing: any sequence of the tree operations on a new Ui.
NextTree ==
    \/ pc = "build" /\ DoAdd
    \/ pc = "build" /\ DoSetRoot
    \/ pc = "build" /\ DoAppendChild
    \/ pc = "build" /\ DoAddBefore
    \/ pc = "build" /\ DoRemoveChild
    \/ pc = "build" /\ DoDeleteChild

SpecTree == Init /\ [][NextTree]_vars

\* Two built and connected trees of three widgets, before the first paint:
\* a chain 2 -> 1 -> 0 and a root 2 with the children 0 and 1; the builder
\* may have given widget 1 the focus.
Chain == set_root(add(add(add(UiNew, <<>>).ui, <<0>>).ui, <<1>>).ui, 2)
Star == set_root(add(add(add(UiNew, <<>>).ui, <<>>).ui, <<0, 1>>).ui, 2)

InitScene ==
    /\ listeners = [id \in Ids |-> <<>>]
    /\ command_listener = FALSE
    /\ \E tree \in {Chain, Star}, focus \in {None, 1} :
          inner = [set_focus(tree, focus) EXCEPT !.layout_ctx.handle.connected = TRUE]
    /\ pc = "idle"
    /\ entry = "none"
    /\ batch = <<>>
    /\ lidx = 1
    /\ opsLeft = 0
    /\ ev = NoEvent
    /\ calls = <<>>
    /\ invoked = <<>>
    /\ pending = [id \in Ids |-> <<>>]
    /\ gen = [id \in Ids |-> 0]
    /\ registered = 0
    /\ deletes = 0
    /\ host = HostNew

Loose == BoxConstraints_new(<<0, 0>>, <<MaxCoord, MaxCoord>>)

\* Pointer and keyboard routing over laid-out trees: the window is sized and
\* painted, the widgets capture the pointer and take the focus.
ButtonOps == {CtxOp("set_active", 1), CtxOp("set_active", 0)}
HoverOps == {CtxOp("set_active", 1)}
KeyOps == {CtxOp("set_focused", 0)}

NextPointer ==
    \/ SizeTo({<<4, 4, 192>>})
    \/ PaintBegin({})
    \/ PaintLayout({<<1, 1>>, <<2, 2>>}, {Loose}, {<<0, 0>>, <<1, 1>>})
    \/ PaintReturn
    \/ MouseOn(Positions, ButtonOps)
    \/ MouseMoveOn(Positions, HoverOps)
    \/ KeyDown(KeyOps)
    \/ KeyUp(KeyOps)
    \/ Scroll(KeyOps)
    \/ LoopHead

SpecPointer == InitScene /\ [][NextPointer]_vars

\* Layout: the window is resized and painted; the widgets want sizes inside
\* and outside the constraints they are given, and give their children
\* tight, raised and inverted (min above max on one axis) constraints.
NextLayout ==
    \/ SizeTo({<<2, 2, 96>>, <<2, 4, 192>>})
    \/ PaintBegin({})
    \/ PaintLayout({<<0, 0>>, <<2, 1>>, <<1, 2>>},
                   {tight(<<1, 1>>), BoxConstraints_new(<<1, 1>>, <<2, 2>>),
                    BoxConstraints_new(<<2, 1>>, <<1, 2>>)},
                   {<<1, 1>>})
    \/ PaintReturn
    \/ LoopHead

SpecLayout == InitScene /\ [][NextLayout]_vars

\* Tree editing while the window lives: widgets 0 and 1 have a listener each,
\* widget 1 has the focus; its key handler sends events, invalidates or asks
\* for animation frames, and so do the anim_frame callbacks; the listeners
\* (run from a key event or from a paint cycle) edit the tree.
InitEdit ==
    /\ listeners = [id \in Ids |-> IF id = 2 THEN <<>> ELSE <<Listener(2 - id, 0)>>]
    /\ command_listener = FALSE
    /\ \E tree \in {Chain, Star} :
          inner = [set_focus(tree, 1) EXCEPT !.layout_ctx.handle.connected = TRUE]
    /\ pc = "idle"
    /\ entry = "none"
    /\ batch = <<>>
    /\ lidx = 1
    /\ opsLeft = 0
    /\ ev = NoEvent
    /\ calls = <<>>
    /\ invoked = <<>>
    /\ pending = [id \in Ids |-> <<>>]
    /\ gen = [id \in Ids |-> 0]
    /\ registered = MaxListeners
    /\ deletes = 0
    /\ host = HostNew

EditOps == {CtxOp("send_event", 1), CtxOp("invalidate", None),
            CtxOp("request_anim_frame", None)}

ListenEdit ==
    \/ pc = "listener" /\ DoAppendChild
    \/ pc = "listener" /\ DoAddBefore
    \/ pc = "listener" /\ DoRemoveChild
    \/ pc = "listener" /\ DoDeleteChild

NextEdit ==
    \/ ListenEdit
    \/ KeyDown(EditOps)
    \/ PaintBegin(EditOps)
    \/ PaintLayout({<<1, 1>>}, {Loose}, {<<0, 0>>})
    \/ PaintReturn
    \/ LoopHead
    \/ InvokeListener
    \/ ListenerReturn
    \/ EventDone
    \/ ClearListenersItemDone
    \/ BatchDone

SpecEdit == InitEdit /\ [][NextEdit]_vars

\* Animation: from the same scenes, the host's idle queue pokes widgets
\* (send_ext), which ask for animation frames, invalidate or send events, and
\* so do the anim_frame callbacks and the widgets poked by listeners; time
\* passes between the host's callbacks.
AnimOps == {CtxOp("request_anim_frame", None), CtxOp("send_event", 1),
            CtxOp("invalidate", None)}

ListenAnim == pc = "listener" /\ DoPoke(AnimOps)

NextAnim ==
    \/ IdlePoke(AnimOps)
    \/ Tick
    \/ SizeTo({<<2, 4, 192>>})
    \/ PaintBegin(AnimOps)
    \/ PaintLayout({<<1, 1>>}, {Loose}, {<<0, 0>>})
    \/ PaintReturn
    \/ ListenAnim
    \/ LoopHead
    \/ InvokeListener
    \/ ListenerReturn
    \/ EventDone
    \/ BatchDone

SpecAnim == InitEdit /\ [][NextAnim]_vars

\* Bubbling: widgets send events when poked and when a key arrives; the
\* listeners bubble pokes up the tree and detach subtrees.
ListenBubble ==
    \/ pc = "listener" /\ DoPokeUp(SendOne)
    \/ pc = "listener" /\ DoRemoveChild

NextBubble ==
    \/ IdlePoke(SendOne)
    \/ KeyDown(SendOne)
    \/ ListenBubble
    \/ LoopHead
    \/ InvokeListener
    \/ ListenerReturn
    \/ EventDone
    \/ BatchDone

SpecBubble == InitEdit /\ [][NextBubble]_vars

\* The drain under fair scheduling: a key arrives, the focused widget and
\* the widgets poked by the listeners send events, and the code of
\* dispatch_events and of the listeners it calls runs on: a listener
\* returns, and the loop takes its next step.
ListenDrain == pc = "listener" /\ DoPoke(SendOne)

DrainOn ==
    \/ LoopHead
    \/ InvokeListener
    \/ ListenerReturn
    \/ EventDone
    \/ BatchDone

NextDrain ==
    \/ KeyDown(SendOne)
    \/ IdlePoke(SendOne)
    \/ ListenDrain
    \/ DrainOn

SpecDrain == InitEdit /\ [][NextDrain]_vars /\ WF_vars(DrainOn)

\* Capture and focus: the widgets take and release the pointer capture and
\* the keyboard focus when poked from the host's idle queue and when a key
\* arrives.
HolderOps == {CtxOp("set_active", 0), CtxOp("set_active", 1),
              CtxOp("set_focused", 0), CtxOp("set_focused", 1)}

NextHolder ==
    \/ IdlePoke(HolderOps)
    \/ KeyDown(HolderOps)
    \/ KeyUp(HolderOps)
    \/ LoopHead

SpecHolder == InitScene /\ [][NextHolder]_vars

\* Animation with a host that keeps its promises: it runs a paint cycle
\* whenever it has been asked to redraw or the last cycle returned true (it
\* may also paint unasked), and every callback it has entered runs to its
\* end.
PaintDue(ops) ==
    /\ layout_ctx.handle.invalidate > 0 \/ host.animating
    /\ PaintBegin(ops)

\* The calls a listener makes in the fair specification.  dispatch_events
\* loops for as long as the queue is fed, so a listener that answers every
\* event with another event keeps the host inside one callback for ever;
\* the listeners here return without sending.
QuietOps == {CtxOp("request_anim_frame", None), CtxOp("invalidate", None)}

ListenQuiet == pc = "listener" /\ DoPoke(QuietOps)

\* The steps by which dispatch_events and the paint callback run on once
\* the layout pass is over.
RunOn ==
    \/ PaintReturn
    \/ LoopHead
    \/ InvokeListener
    \/ ListenerReturn
    \/ EventDone
    \/ BatchDone

\* The layout pass of a paint cycle is run: PaintLayout is the one step at
\* pc = "layout" and is enabled in every such state.
LayoutRuns == pc = "layout" /\ pc' = "painted"

NextAnimLive ==
    \/ IdlePoke(AnimOps)
    \/ PaintBegin(AnimOps)
    \/ PaintLayout({<<1, 1>>}, {Loose}, {<<0, 0>>})
    \/ ListenQuiet
    \/ RunOn

\* The host runs a paint cycle when one is due, and the code of a callback
\* it has entered runs to the callback's return.
SpecAnimLive ==
    /\ InitEdit
    /\ [][NextAnimLive]_vars
    /\ WF_vars(PaintDue(AnimOps))
    /\ WF_pc(LayoutRuns)
    /\ WF_vars(RunOn)

\* ------------------------------------------------------------------ claims

InputEntries == {"mouse", "mouse_move", "key_down", "key_up", "scroll", "command"}

\* C1: after the window is connected, whenever an input-handling entry point
\* (pointer button, pointer move, key down, key up, scroll, command) returns,
\* the event queue is empty.
C1_QueueEmptyOnReturn ==
    [][(pc # "idle" /\ pc' = "idle" /\ entry \in InputEntries
        /\ layout_ctx.handle.connected)
       => inner'.layout_ctx.event_q = <<>>]_vars

\* The node k steps up the parent pointers from node.
RECURSIVE Up(_, _, _)
Up(ui, node, k) == IF k = 0 THEN node ELSE At(ui.graph.parent, Up(ui, node, k - 1))

\* The node and all its ancestors.
Ancestry(ui, node) == {Up(ui, node, k) : k \in 0 .. Len(ui.widgets)}

RECURSIVE SumOrigins(_, _)
SumOrigins(ui, S) ==
    IF S = {} THEN <<0, 0>>
    ELSE LET n == CHOOSE m \in S : TRUE
         IN  PtAdd(origin(At(ui.layout_ctx.geom, n)), SumOrigins(ui, S \ {n}))

\* The nodes a pointer-button event at pos reaches by hit-testing when no
\* node is active and no handler handles it.
HitNodes(ui, pos) ==
    LET quiet == mouse([ui EXCEPT !.layout_ctx.active = None], pos,
                       [n \in Ids |-> NullBehaviour]).calls
    IN  {quiet[i].node : i \in 1 .. Len(quiet)}

\* C2: when a node A is active, a pointer-button event invokes the button
\* handler of A exactly once and of no other node, whatever the position and
\* the geometry, and the position handed to A is the event position minus
\* the sum of the origins of A and all its ancestors.
C2_ActiveCapturesButton ==
    (pc = "handled" /\ ev.kind = "mouse" /\ ev.active # None) =>
        \E ret \in BOOLEAN :
           calls = <<[Call("mouse", ev.active,
                           PtSub(ev.pos, SumOrigins(inner, Ancestry(inner, ev.active))),
                           FALSE) EXCEPT !.ret = ret]>>

\* The active node and its parent have non-zero origins, the position is
\* outside the active node's rectangle and over other nodes, and the active
\* node alone has been called.
C2_Witness ==
    /\ pc = "handled" /\ ev.kind = "mouse" /\ ev.active # None
    /\ Len(calls) = 1 /\ calls[1].node = ev.active
    /\ ~Inside(calls[1].pos, At(layout_ctx.geom, ev.active))
    /\ origin(At(layout_ctx.geom, ev.active)) # <<0, 0>>
    /\ At(graph.parent, ev.active) # ev.active
    /\ origin(At(layout_ctx.geom, At(graph.parent, ev.active))) # <<0, 0>>
    /\ HitNodes(inner, ev.pos) \ {ev.active} # {}

HoverCalls == SelectSeq(calls, LAMBDA c : c.cb = "on_hot_changed")

HoverCall(node, hot) == Call("on_hot_changed", node, <<0, 0>>, hot)

\* C4: for every pointer-motion event, if the new hot node differs from the
\* previous one, hover-changed(false) is invoked once on the old hot node (if
\* any) and then hover-changed(true) once on the new hot node (if any); if
\* the hot node is unchanged no hover-changed notification is invoked.
C4_HoverExitThenEnter ==
    (pc = "handled" /\ ev.kind = "mouse_move") =>
        LET old == ev.hot
            new == layout_ctx.hot
        IN  HoverCalls =
               IF new # old
               THEN (IF old # None THEN <<HoverCall(old, FALSE)>> ELSE <<>>)
                    \o (IF new # None THEN <<HoverCall(new, TRUE)>> ELSE <<>>)
               ELSE <<>>

\* The pointer has moved from one hot node to another: exit, then enter.
C4_Witness ==
    /\ pc = "handled" /\ ev.kind = "mouse_move"
    /\ ev.hot # None /\ layout_ctx.hot # None /\ ev.hot # layout_ctx.hot
    /\ HoverCalls = <<HoverCall(ev.hot, FALSE), HoverCall(layout_ctx.hot, TRUE)>>

\* A listener in the registry of Id id that was registered for a former
\* occupant of the Id.
Stale(id) == {i \in 1 .. Len(listeners[id]) : listeners[id][i].gen # gen[id]}

DeletedIds == {id \in Ids : gen[id] > 0}

RegistrySize == Cardinality({<<id, i>> \in Ids \X (1 .. MaxListeners + 1) :
                                i <= Len(listeners[id])})

\* C5: after delete_child(node, child) and the next drain of the event queue,
\* the registry holds no listener registered before the deletion for any Id
\* of the deleted subtree, at every depth.
C5_DeletedListenersCleared ==
    (pc = "idle" /\ layout_ctx.event_q = <<>>) => \A id \in Ids : Stale(id) = {}

\* A subtree of two nodes was deleted, listeners had been registered, and
\* after the drain the registry is empty.
C5_Witness ==
    /\ pc = "idle" /\ layout_ctx.event_q = <<>>
    /\ Cardinality(DeletedIds) >= 2
    /\ registered >= 1
    /\ RegistrySize = 0
    /\ \A id \in Ids : gen[id] = 0 => ~Live(inner, id) \/ At(graph.children, id) = <<>>

\* C6: no listener registered for a former occupant of an Id is invoked on
\* an event whose delivery begins after the delete_child call that deleted
\* that occupant, in any interleaving of delete, add, add_listener and event
\* delivery.  (The step from "batch" to "listener" with lidx = 1 begins the
\* delivery of the item at the head of the batch by invoking the first
\* listener of its Id.)
C6_NoResurrection ==
    [][(pc = "batch" /\ pc' = "listener" /\ lidx = 1)
       => listeners[Head(batch).id][1].gen = gen[Head(batch).id]]_vars

\* The places <<n, i>> of the child lists that hold the Id.
SlotsOf(ui, id) ==
    {s \in IdsOf(ui.widgets) \X (1 .. MaxNodes) :
        s[2] <= Len(At(ui.graph.children, s[1])) /\ At(ui.graph.children, s[1])[s[2]] = id}

Freed(ui) == SeqRange(ui.graph.free_list)

\* C7, as stated: after any sequence of add, append_child, add_before,
\* remove_child and delete_child calls the live nodes form a single rooted
\* tree: every Id in a child list is live, and every live node but the root
\* is in exactly one child list, once.
C7_SingleRootedTree ==
    /\ \A n \in LiveIds(inner) : SeqRange(At(graph.children, n)) \subseteq LiveIds(inner)
    /\ \A id \in LiveIds(inner) : id # graph.root => Cardinality(SlotsOf(inner, id)) = 1

\* C7, amended: after any sequence of add, append_child, add_before,
\* remove_child and delete_child calls that respect the operations'
\* contracts, the live nodes form a forest: the Id the next add returns is
\* not live, every Id in a child list is live and is no tombstone, every
\* live node is in at most one child list, once, and its parent pointer
\* names that list's node (or itself when it is in none), no node is its
\* own ancestor, and a freed Id keeps no child, no parent and no place in a
\* child list, so that a reused Id has only the edges given to it since.
C7_LiveNodesFormForest ==
    /\ alloc_node(graph).id \notin LiveIds(inner)
    /\ NoDuplicates(graph.free_list)
    /\ \A n \in IdsOf(inner.widgets) :
          /\ SeqRange(At(graph.children, n)) \subseteq LiveIds(inner)
          /\ \A c \in SeqRange(At(graph.children, n)) : At(inner.widgets, c) # "NullWidget"
    /\ \A id \in LiveIds(inner) :
          /\ Cardinality(SlotsOf(inner, id)) <= 1
          /\ \A s \in SlotsOf(inner, id) : At(graph.parent, id) = s[1]
          /\ SlotsOf(inner, id) = {} => At(graph.parent, id) = id
          /\ LET top == Up(inner, id, Len(inner.widgets))
             IN  At(graph.parent, top) = top
    /\ \A id \in Freed(inner) :
          /\ At(graph.children, id) = <<>>
          /\ At(graph.parent, id) = id
          /\ SlotsOf(inner, id) = {}

\* A subtree was deleted and one of its Ids, reused by add, is now the
\* child of a live node.
C7_Witness ==
    \E id \in LiveIds(inner) :
       /\ gen[id] > 0
       /\ At(graph.parent, id) # id
       /\ SlotsOf(inner, id) # {}

\* C8: each payload delivered to an Id invokes every listener registered for
\* that Id exactly once, in registration order, and the payloads sent to one
\* Id are delivered in the order they were sent.
C8_ListenersInOrder ==
    /\ \A id \in Ids : \A i, j \in 1 .. Len(listeners[id]) :
          i < j => listeners[id][i].f < listeners[id][j].f
    /\ (pc \in {"batch", "listener"} /\ batch # <<>> /\ Head(batch).type = "Event") =>
          LET id == Head(batch).id
          IN  /\ invoked = SubSeq(listeners[id], 1, IF pc = "listener" THEN lidx ELSE lidx - 1)
              /\ pc = "batch" => lidx <= Len(listeners[id]) + 1
              /\ pending[id] # <<>>
              /\ Head(pending[id]) = Head(batch).payload

\* Both listeners of an Id have been invoked for a payload while a second,
\* different payload sent to the same Id waits behind it.
C8_Witness ==
    /\ pc = "batch" /\ batch # <<>> /\ Head(batch).type = "Event"
    /\ Len(listeners[Head(batch).id]) = 2
    /\ lidx = 3
    /\ invoked = listeners[Head(batch).id]
    /\ Len(pending[Head(batch).id]) = 2
    /\ pending[Head(batch).id][1] # pending[Head(batch).id][2]

Recorded(c) ==
    LET g == At(layout_ctx.geom, c.node) IN <<g.w, g.h>>

InRange(c) == \A a \in {1, 2} : c.bc.min[a] <= c.pos[a] /\ c.pos[a] <= c.bc.max[a]

Ordered(bc) == \A a \in {1, 2} : bc.min[a] <= bc.max[a]

\* C9, as stated: for every BoxConstraints built by new or tight and every
\* size, constrain returns a size between min and max on both axes, and the
\* geometry recorded for the node is that size.
C9_ConstrainInRange ==
    pc = "painted" =>
        \A i \in 1 .. Len(calls) :
           calls[i].cb = "layout" => InRange(calls[i]) /\ Recorded(calls[i]) = calls[i].pos

\* C9, amended: for every BoxConstraints built by tight, or by new with
\* min <= max on both axes, and every size, constrain returns a size between
\* min and max on both axes; and for every BoxConstraints the geometry
\* recorded for the node is the size returned.
C9_ConstrainInOrderedRange ==
    pc = "painted" =>
        \A i \in 1 .. Len(calls) :
           calls[i].cb = "layout" =>
              /\ Ordered(calls[i].bc) => InRange(calls[i])
              /\ Recorded(calls[i]) = calls[i].pos

\* A widget that wanted less than the minimum was given the minimum, under a
\* tightly constrained root of non-zero size.
C9_Witness ==
    /\ pc = "painted"
    /\ \E i, j \in 1 .. Len(calls) :
          /\ calls[i].cb = "layout" /\ calls[j].cb = "layout"
          /\ calls[i].bc = BoxConstraints_new(<<1, 1>>, <<2, 2>>)
          /\ calls[i].pos = <<1, 1>>
          /\ Recorded(calls[i]) = <<1, 1>>
          /\ calls[j].node = graph.root
          /\ calls[j].bc = tight(layout_ctx.size)
          /\ calls[j].pos = layout_ctx.size /\ layout_ctx.size # <<0, 0>>

\* C10: a key-down or key-up event invokes the key handler of the focused
\* node and of no other node, and a scroll event the scroll handler of the
\* hot node and of no other; when focused (resp. hot) is unset no widget
\* callback is invoked, and key-down reports not handled.
C10_KeysToFocusedScrollToHot ==
    pc = "handled" =>
        /\ ev.kind \in {"key_down", "key_up"} =>
               calls = IF ev.focused # None
                       THEN <<Call(ev.kind, ev.focused, <<0, 0>>, FALSE)>>
                       ELSE <<>>
        /\ ev.kind = "scroll" =>
               calls = IF ev.hot # None
                       THEN <<Call("scroll", ev.hot, <<0, 0>>, FALSE)>>
                       ELSE <<>>
        /\ (ev.kind = "key_down" /\ ev.focused = None) => ~ev.handled

\* A key-down was handled by a focused node that has a parent and a child,
\* while another node is hot.
C10_Witness ==
    /\ pc = "handled" /\ ev.kind = "key_down" /\ ev.handled
    /\ ev.focused # None /\ ev.hot # None /\ ev.hot # ev.focused
    /\ At(graph.parent, ev.focused) # ev.focused
    /\ At(graph.children, ev.focused) # <<>>
    /\ Len(calls) = 1

\* The step is a remove_child(node, child) made by a listener: an edge from
\* node to child goes, and nothing is deleted.
RemovesEdge(node, child) ==
    /\ pc = "listener" /\ pc' = "listener"
    /\ deletes' = deletes
    /\ child \in SeqRange(At(graph.children, node))
    /\ child \notin SeqRange(At(graph'.children, node))

Without(s, x) == SelectSeq(s, LAMBDA y : y # x)

\* C12: remove_child(node, child) removes only the edge from node to child:
\* the widget slots, the geometry, the child's own subtree and every other
\* child list, and the listeners (of the child and its descendants among
\* them) are unchanged, nothing is enqueued, the parent widget receives
\* exactly one on_child_removed naming the child, and the child is detached,
\* so that append_child or add_before may attach it again.
C12_RemoveChildOnlyEdge ==
    [][\A node, child \in Ids :
          RemovesEdge(node, child) =>
             /\ inner'.widgets = inner.widgets
             /\ layout_ctx'.geom = layout_ctx.geom
             /\ layout_ctx'.per_widget = layout_ctx.per_widget
             /\ layout_ctx'.event_q = layout_ctx.event_q
             /\ listeners' = listeners
             /\ \A n \in IdsOf(inner.widgets) :
                   At(graph'.children, n) =
                      IF n = node THEN Without(At(graph.children, n), child)
                      ELSE At(graph.children, n)
             /\ Subtree(graph', child) = Subtree(graph, child)
             /\ graph'.free_list = graph.free_list
             /\ calls' = Append(calls, [Call("on_child_removed", node, <<0, 0>>, FALSE)
                                           EXCEPT !.child = child])
             /\ Detached(inner', child)
             /\ Attachable(inner', node, child)]_vars

\* A listener has just removed child 1 of the root: the child has a listener
\* and a child of its own, which has a listener too.
C12_Witness ==
    /\ pc = "listener"
    /\ calls # <<>>
    /\ Last(calls).cb = "on_child_removed" /\ Last(calls).child = 1
    /\ deletes = 0
    /\ Detached(inner, 1)
    /\ listeners[1] # <<>> /\ listeners[0] # <<>>
    /\ At(graph.children, 1) = <<0>>

\* The step is a tree-editing operation of a listener.
TreeEdit == pc = "listener" /\ pc' = "listener" /\ graph' # graph

\* The step begins a paint cycle, which serves the redraw requests.
PaintBegins == pc = "idle" /\ pc' = "handled" /\ entry' = "paint"

\* The step leaves the animation state and the redraw requests alone.
NoRedrawAsked ==
    /\ layout_ctx'.anim_state = layout_ctx.anim_state
    /\ layout_ctx'.handle.invalidate = layout_ctx.handle.invalidate

\* The step moves Idle to InvalidationRequested and asks the host once.
RedrawAsked ==
    /\ layout_ctx.anim_state = "Idle"
    /\ layout_ctx'.anim_state = "InvalidationRequested"
    /\ layout_ctx'.handle.invalidate = layout_ctx.handle.invalidate + 1

\* C13: an invalidate or request-layout call moves the animation state from
\* Idle to InvalidationRequested and asks the host to redraw exactly once;
\* in any other state it changes neither the animation state nor asks the
\* host.  So a tree-editing operation (append_child, add_before,
\* remove_child, delete_child) leaves the state other than Idle, the host is
\* asked only by a step that leaves Idle, and InvalidationRequested is
\* entered only from Idle.
C13_InvalidateOnceFromIdle ==
    [][/\ TreeEdit =>
            /\ IF layout_ctx.anim_state = "Idle" THEN RedrawAsked ELSE NoRedrawAsked
            /\ layout_ctx'.anim_state # "Idle"
       /\ (layout_ctx'.handle.invalidate # layout_ctx.handle.invalidate /\ ~PaintBegins)
             => RedrawAsked
       /\ (layout_ctx'.anim_state = "InvalidationRequested"
            /\ layout_ctx.anim_state # "InvalidationRequested") => RedrawAsked]_vars

\* Two tree edits have been made by a listener run from a paint cycle: they
\* found the state AnimFrameStart and asked the host for nothing.
C13_Witness ==
    /\ pc = "listener" /\ entry = "paint"
    /\ opsLeft = 0
    /\ Len(calls) >= 2 /\ Last(calls).cb = "on_child_removed"
    /\ layout_ctx.anim_state = "AnimFrameStart"
    /\ layout_ctx.handle.invalidate = 0

\* The records of the layout invocations of the paint cycle, in order.
LayoutLog == SelectSeq(calls, LAMBDA c : c.cb \in {"layout_step", "layout"})

\* The index of the record that ends the step sequence of node begun after i.
FinalAfter(L, i, node) ==
    CHOOSE k \in i + 1 .. Len(L) :
       /\ L[k].cb = "layout" /\ L[k].node = node
       /\ \A m \in i + 1 .. k - 1 : ~(L[m].cb = "layout" /\ L[m].node = node)

\* C19: layout of a node is a step sequence.  The first invocation of a node
\* is handed no child size; when an invocation answers RequestChild(c, bc)
\* the next invocation is the first of c, under bc, the requester is not
\* invoked again until c has answered its final size, and the invocation
\* after that is the requester's and is handed exactly that size; a final
\* size is recorded as the size of the node's rectangle and leaves its
\* origin unchanged.  The pass begins and ends with the root.
C19_LayoutStepsNested ==
    pc = "painted" =>
        LET L == LayoutLog
        IN  /\ L # <<>>
            /\ L[1].node = graph.root /\ L[1].given = NoSize
            /\ Last(L).cb = "layout" /\ Last(L).node = graph.root
            /\ \A i \in 1 .. Len(L) :
                  /\ L[i].cb = "layout_step" =>
                        /\ i < Len(L)
                        /\ L[i + 1].node = L[i].child
                        /\ L[i + 1].given = NoSize
                        /\ \E k \in i + 1 .. Len(L) : L[k].cb = "layout" /\ L[k].node = L[i].child
                        /\ LET k == FinalAfter(L, i, L[i].child)
                           IN  /\ L[k].bc = L[i].bc
                               /\ \A m \in i + 1 .. k : L[m].node # L[i].node
                               /\ k < Len(L)
                               /\ L[k + 1].node = L[i].node
                               /\ L[k + 1].given = L[k].pos
                  /\ L[i].cb = "layout" =>
                        /\ L[i].flag
                        /\ Recorded(L[i]) = L[i].pos

\* A parent with two children has been laid out: the children answered
\* different sizes, the parent was handed the size of the first when it
\* requested the second, and the rectangles had origins other than zero.
C19_Witness ==
    /\ pc = "painted"
    /\ LET L == LayoutLog
       IN  \E i, j, k \in 1 .. Len(L) :
              /\ i < j /\ j < k
              /\ L[i].cb = "layout" /\ L[k].cb = "layout"
              /\ L[i].pos # L[k].pos
              /\ L[j].cb = "layout_step" /\ L[j].given = L[i].pos
              /\ L[j].child = L[k].node
              /\ L[k + 1].given = L[k].pos
              /\ origin(At(layout_ctx.geom, L[k].node)) # <<0, 0>>
              /\ host.painted_at # None

\* The step is the end of a paint cycle: layout, paint and the value returned.
PaintEnds == pc = "layout" /\ pc' = "painted"

\* C14: a paint cycle returns true if and only if the animation state is
\* AnimFrameRequested once the animation callbacks, the queue drain, layout
\* and paint have run; then the state stays AnimFrameRequested and the
\* last-paint timestamp is kept; otherwise it returns false, the state becomes
\* Idle and the timestamp is cleared.
C14_PaintReturnsAnimRequested ==
    [][PaintEnds =>
          /\ ev'.handled <=> layout_ctx.anim_state = "AnimFrameRequested"
          /\ IF ev'.handled
             THEN /\ layout_ctx'.anim_state = "AnimFrameRequested"
                  /\ layout_ctx'.prev_paint_time = layout_ctx.prev_paint_time
                  /\ layout_ctx'.prev_paint_time = host.clock
             ELSE /\ layout_ctx'.anim_state = "Idle"
                  /\ layout_ctx'.prev_paint_time = None]_vars

\* A paint cycle is returning false after an earlier one returned true and
\* time has passed: the state is Idle again.
C14_Witness ==
    /\ pc = "painted"
    /\ ~ev.handled
    /\ layout_ctx.anim_state = "Idle"
    /\ host.animating
    /\ host.clock > host.painted_at

\* The animation callbacks of the paint cycle have just run.
AnimCallbacksDone == pc = "handled" /\ ev.kind = "paint"

\* C15: in a paint cycle the animation callback runs exactly for the nodes
\* whose wants-a-frame flag was set when the cycle began, once each, and
\* finds the node's flag cleared; after the callbacks only nodes whose
\* callback asked again have the flag set (and the state is then
\* AnimFrameRequested), so a node that did not ask again, and for which
\* nobody asks before the next cycle, gets no callback in the next cycle.
C15_FlagClearedBeforeCallback ==
    AnimCallbacksDone =>
        /\ \A i \in 1 .. Len(calls) :
              /\ calls[i].cb = "anim_frame"
              /\ calls[i].node \in ev.wants
              /\ ~calls[i].flag
              /\ \A j \in 1 .. Len(calls) : i < j => calls[i].node < calls[j].node
        /\ \A n \in ev.wants : \E i \in 1 .. Len(calls) : calls[i].node = n
        /\ Wanting(layout_ctx) \subseteq ev.wants
        /\ Wanting(layout_ctx) # {} <=> layout_ctx.anim_state = "AnimFrameRequested"

\* Three nodes wanted a frame and got their callback; one of them asked for
\* another frame and the others did not.
C15_Witness ==
    /\ AnimCallbacksDone
    /\ Len(calls) = 3
    /\ Cardinality(Wanting(layout_ctx)) = 1

\* C16: the interval handed to the animation callbacks of a paint cycle is
\* zero in the first cycle and in every cycle whose preceding cycle returned
\* false, and the time since the preceding cycle began when that cycle
\* returned true; all callbacks of one cycle are handed the same interval.
C16_IntervalSincePreviousFrame ==
    AnimCallbacksDone =>
        \A i \in 1 .. Len(calls) :
           calls[i].interval =
              IF host.animating THEN host.clock - host.painted_at ELSE 0

\* Two callbacks of a cycle that follows, after some time, a cycle that
\* returned true.
C16_Witness ==
    /\ AnimCallbacksDone
    /\ Len(calls) >= 2
    /\ host.animating
    /\ calls[1].interval > 0

\* The nodes of the subtree of node in pre-order, children in child-list
\* order, for trees of depth up to MaxNodes.
RECURSIVE PreOrder(_, _, _)
PreOrder(ui, node, depth) ==
    IF depth = 0 THEN <<node>>
    ELSE LET kids == At(ui.graph.children, node)
             Sub[i \in 0 .. Len(kids)] ==
                 IF i = 0 THEN <<>> ELSE Sub[i - 1] \o PreOrder(ui, kids[i], depth - 1)
         IN  <<node>> \o Sub[Len(kids)]

\* The nodes of the records of the callback cb among s.
NodesOf(s, cb) ==
    LET sel == SelectSeq(s, LAMBDA c : c.cb = cb)
    IN  [i \in 1 .. Len(sel) |-> sel[i].node]

\* The records are ordered by phase: no record of the callbacks later comes
\* before a record of the callbacks earlier.
InPhases(s, earlier, later) ==
    \A i, j \in 1 .. Len(s) : (s[i].cb \in later /\ s[j].cb \in earlier) => j < i

\* What holds of the phases of a paint cycle: after the animation callbacks,
\* when layout starts, and when the cycle ends.
PaintCycleOrder ==
    /\ AnimCallbacksDone =>
          layout_ctx.anim_state \in {"AnimFrameStart", "AnimFrameRequested"}
    /\ pc \in {"layout", "painted"} =>
          /\ layout_ctx.event_q = <<>> /\ batch = <<>>
          /\ entry = "paint"
    /\ pc = "painted" =>
          /\ InPhases(calls, {"anim_frame"}, {"layout_step", "layout", "paint"})
          /\ InPhases(calls, {"layout_step", "layout"}, {"paint"})
          /\ \A i \in 1 .. Len(calls) :
                calls[i].cb \in {"anim_frame", "layout_step", "layout", "paint"}
          /\ LET L == LayoutLog
             IN  /\ L # <<>>
                 /\ Last(L).cb = "layout" /\ Last(L).node = graph.root
                 /\ Last(L).bc = tight(layout_ctx.size)
          /\ NodesOf(calls, "paint") = PreOrder(inner, graph.root, MaxNodes)

\* C20: a paint cycle runs in this order: the animation state is set to
\* AnimFrameStart before the animation callbacks run (so that after them it
\* is AnimFrameStart or AnimFrameRequested), the queue is drained to empty
\* before layout starts and no listener runs from then on (the steps from
\* layout lead to the end of the cycle and from there to the host), the root
\* is laid out under tight constraints of the current window size, and then
\* the tree is painted pre-order from the root, each node once, a parent
\* before its children, children in child-list order.
C20_PaintCycleOrder ==
    /\ []PaintCycleOrder
    /\ [][(pc = "layout" => pc' = "painted") /\ (pc = "painted" => pc' = "idle")]_vars

\* A cycle has ended in which the animation callback of node 1 ran, a
\* listener run during the drain poked node 0, which asked for a frame, and
\* a root with two children was laid out and painted under a window size
\* other than zero.
C20_Witness ==
    /\ pc = "painted"
    /\ calls[1].cb = "anim_frame"
    /\ ev.wants = {1} /\ Wanting(layout_ctx) = {0}
    /\ Len(At(graph.children, graph.root)) = 2
    /\ layout_ctx.size # <<0, 0>>

\* The animation callback of node n has just run in a paint cycle.
AnimCalled(n) == AnimCallbacksDone /\ \E i \in 1 .. Len(calls) : calls[i].node = n

\* C11: after a widget calls request_anim_frame, in whatever animation state
\* (its wants-a-frame flag is then set), its anim_frame callback is
\* eventually invoked at the beginning of a paint cycle, given a host that
\* runs a paint cycle whenever it was asked to redraw or the last cycle
\* returned true.
C11_RequestedFrameArrives ==
    \A n \in Ids : (n \in Wanting(layout_ctx)) ~> AnimCalled(n)

\* A widget has asked for a frame in each of the four animation states: the
\* cycle that ends was asked for while Idle or InvalidationRequested, and in
\* it one callback asked again from AnimFrameStart and a poked widget asked
\* from AnimFrameRequested.
C11_Witness ==
    /\ pc = "painted"
    /\ ev.wants # {}
    /\ Cardinality(Wanting(layout_ctx)) >= 2
    /\ layout_ctx.anim_state = "AnimFrameRequested"
    /\ host.animating

\* The position pos of the window in the local space of node: less the
\* origins of node and of all its ancestors.
LocalPos(ui, pos, node) == PtSub(pos, SumOrigins(ui, Ancestry(ui, node)))

\* pos lies within the rectangle of node and of every ancestor of node.
Hit(ui, pos, node) ==
    \A a \in Ancestry(ui, node) :
        Inside(LocalPos(ui, pos, a), At(ui.layout_ctx.geom, a))

\* Hit-testing comes to a before b: a is an ancestor of b, or the two lie
\* under different children of a common ancestor and the child towards a
\* is later in its child list.
TriedBefore(ui, a, b) ==
    /\ a # b
    /\ \/ a \in Ancestry(ui, b)
       \/ /\ b \notin Ancestry(ui, a)
          /\ \E c \in Ancestry(ui, a) \cap Ancestry(ui, b) :
                LET cs == At(ui.graph.children, c)
                IN  \E i, j \in 1 .. Len(cs) :
                       /\ cs[i] \in Ancestry(ui, a)
                       /\ cs[j] \in Ancestry(ui, b)
                       /\ i > j

\* A pointer-button event has been hit-tested with no node active.
ButtonHitTested == pc = "handled" /\ ev.kind = "mouse" /\ ev.active = None

Called == {calls[i].node : i \in 1 .. Len(calls)}

\* C17: with no active node, a pointer-button event invokes button handlers
\* only, each with the position in the node's local space and only on nodes
\* whose rectangle and whose ancestors' rectangles contain the position; a
\* node's handler comes before those of its descendants and the children
\* are tried in reverse child-list order; no handler runs after one that
\* returned handled, so at most one does; and up to that point no node
\* containing the position is left out.
C17_HitTestPreOrder ==
    ButtonHitTested =>
        LET n == Len(calls)
            stopped == n > 0 /\ calls[n].ret
            hits == {m \in SeqRange(Subtree(graph, graph.root)) : Hit(inner, ev.pos, m)}
            due == {m \in hits : \/ ~stopped
                                 \/ m = calls[n].node
                                 \/ TriedBefore(inner, m, calls[n].node)}
        IN  /\ \A i \in 1 .. n :
                  /\ calls[i].cb = "mouse"
                  /\ calls[i].pos = LocalPos(inner, ev.pos, calls[i].node)
            /\ Called = due
            /\ \A i, j \in 1 .. n :
                  i < j => TriedBefore(inner, calls[i].node, calls[j].node)
            /\ \A i \in 1 .. n - 1 : ~calls[i].ret

\* The root passed the event on, the later of its two children was tried
\* first and handled it, and the earlier child, whose rectangle also
\* contains the position, was not called.
C17_Witness ==
    /\ ButtonHitTested
    /\ Len(calls) = 2
    /\ calls[1].node = graph.root /\ ~calls[1].ret
    /\ calls[2].ret
    /\ \E m \in Ids \ Called :
          /\ Hit(inner, ev.pos, m)
          /\ TriedBefore(inner, calls[2].node, m)

\* The descent of pointer motion enters node from its parent: its rectangle
\* contains the position and that of no later sibling does.
Entered(ui, pos, node) ==
    LET sibs == At(ui.graph.children, At(ui.graph.parent, node))
        over(m) == Inside(LocalPos(ui, pos, m), At(ui.layout_ctx.geom, m))
    IN  /\ over(node)
        /\ \A i, j \in 1 .. Len(sibs) : (sibs[i] = node /\ i < j) => ~over(sibs[j])

\* The nodes of the single path the descent takes from the root, whose own
\* rectangle is not tested.
DescentPath(ui, pos) ==
    {m \in SeqRange(Subtree(ui.graph, ui.graph.root)) :
        \A a \in Ancestry(ui, m) \ {ui.graph.root} : Entered(ui, pos, a)}

\* The leaf the descent ends in, None when it ends in a node with children.
DescentLeaf(ui, pos) ==
    LET leaves == {m \in DescentPath(ui, pos) : At(ui.graph.children, m) = <<>>}
    IN  IF leaves = {} THEN None ELSE CHOOSE m \in leaves : TRUE

MoveCalls == SelectSeq(calls, LAMBDA c : c.cb = "mouse_moved")

MoveCall(node) == Call("mouse_moved", node, LocalPos(inner, ev.pos, node), FALSE)

\* C18: on pointer motion the hot node becomes the leaf reached by a
\* single-path descent from the root that at each level enters the last
\* child in child-list order whose rectangle contains the local position,
\* whatever the button handlers would do; the motion callback then goes,
\* after any hover notification and with the position in the node's local
\* space, to the active node if one is set and else to the new hot node if
\* there is one.  (A hover notification may capture the pointer, so the
\* active node is the one set at the time of delivery.)
C18_MotionDescent ==
    (pc = "handled" /\ ev.kind = "mouse_move") =>
        LET new_hot == DescentLeaf(inner, ev.pos)
            target == IF ev.active # None THEN ev.active ELSE new_hot
        IN  /\ layout_ctx.hot = new_hot
            /\ calls = HoverCalls \o MoveCalls
            /\ HoverCalls = <<>> =>
                  MoveCalls = IF target = None THEN <<>> ELSE <<MoveCall(target)>>
            /\ Len(MoveCalls) <= 1
            /\ new_hot # None => Len(MoveCalls) = 1
            /\ \A i \in 1 .. Len(MoveCalls) :
                  /\ MoveCalls[i] = MoveCall(MoveCalls[i].node)
                  /\ MoveCalls[i].node \in ({ev.active, ev.hot, new_hot} \ {None})

\* Two siblings at a non-zero origin both contain the position; the later
\* one has become hot and, no node being active, has got the motion.
C18_Witness ==
    /\ pc = "handled" /\ ev.kind = "mouse_move" /\ ev.active = None
    /\ layout_ctx.hot # None /\ ev.hot # layout_ctx.hot
    /\ MoveCalls = <<MoveCall(layout_ctx.hot)>>
    /\ LocalPos(inner, ev.pos, layout_ctx.hot) # ev.pos
    /\ \E m \in Ids \ {layout_ctx.hot} :
          /\ At(graph.parent, m) = At(graph.parent, layout_ctx.hot)
          /\ m # graph.root
          /\ Inside(LocalPos(inner, ev.pos, m), At(layout_ctx.geom, m))

\* The step is a call of poke_up by a listener: its record is the last of
\* the records the step adds.
PokeUpCalled ==
    /\ pc = "listener" /\ pc' = "listener"
    /\ Len(calls') > Len(calls)
    /\ calls'[Len(calls')].cb = "poke_up"

\* The pokes the step made, in order.
PokesMade == SubSeq(calls', Len(calls) + 1, Len(calls') - 1)

\* node is the root or a detached node: it is its own parent.
SelfParent(ui, node) == At(ui.graph.parent, node) = node

\* C21: poke_up from a listener whose node is N pokes the ancestors of N in
\* order from the parent upward, each once and never N itself; it stops at
\* the first ancestor whose poke returns true and then returns true; it
\* returns false exactly when no poke returned true, and then it has poked
\* every ancestor up to the one that is its own parent; and it returns.
C21_PokeUpBubbles ==
    [][PokeUpCalled =>
          LET N == Head(batch).id
              pokes == PokesMade
              n == Len(pokes)
              last == calls'[Len(calls')]
          IN  /\ last.node = N
              /\ last.flag
              /\ \A i \in 1 .. n :
                    /\ pokes[i].cb = "poke"
                    /\ pokes[i].node = Up(inner, N, i)
                    /\ ~SelfParent(inner, Up(inner, N, i - 1))
                    /\ pokes[i].node # N
                    /\ \A j \in 1 .. n : pokes[j].node = pokes[i].node => j = i
              /\ \A i \in 1 .. n - 1 : ~pokes[i].ret
              /\ last.ret = (n > 0 /\ pokes[n].ret)
              /\ ~last.ret => SelfParent(inner, Up(inner, N, n))]_vars

\* poke_up from a node two levels below the root has poked the parent, which
\* did not handle the payload, and then the root, which did.
C21_Witness ==
    /\ pc = "listener"
    /\ Len(calls) >= 3
    /\ LET k == Len(calls)
       IN  /\ calls[k].cb = "poke_up" /\ calls[k].ret /\ calls[k].node = Head(batch).id
           /\ calls[k - 1] = PokeCall(graph.root, TRUE)
           /\ calls[k - 2] = PokeCall(At(graph.parent, calls[k].node), FALSE)
           /\ At(graph.parent, calls[k].node) \notin {graph.root, calls[k].node}

\* C22: every drain of the event queue terminates: once an input handler has
\* run its widget code, control returns to the platform, whatever the
\* listeners and widgets invoked during the drain do.
C22_DrainTerminates == (pc = "handled") ~> (pc = "idle")

\* The items enqueued and not yet processed, in the order of their
\* enqueueing: those of the pass that is running, then the live queue.
Waiting == batch \o layout_ctx.event_q

\* The registry ls after the register and clear items of items, in order.
RECURSIVE Applied(_, _)
Applied(ls, items) ==
    IF items = <<>> THEN ls
    ELSE LET it == Head(items)
             next == CASE it.type = "AddListener" ->
                              [ls EXCEPT ![it.id] = Append(@, it.listener)]
                       [] it.type = "ClearListeners" -> [ls EXCEPT ![it.id] = <<>>]
                       [] OTHER -> ls
         IN  Applied(next, Tail(items))

\* The listeners registered for the Id of the k-th item of Q by the registry
\* ls and the items enqueued before that item, less those cleared.
Foreseen(ls, Q, k) == Applied(ls, SubSeq(Q, 1, k - 1))[Q[k].id]

\* C23: queue items are processed in the order of their enqueueing, those
\* enqueued during a pass after every item of the pass.  A step either
\* processes the oldest waiting item or leaves the waiting items in place,
\* possibly with new ones behind them, and the registry as it is (so
\* add_listener does not touch the registry).  Processing a register item
\* appends its listener, a clear item empties the list of its Id, and a
\* deliver item has invoked exactly the listeners then registered for its
\* Id; the listeners a waiting deliver item will invoke are, from the moment
\* it is enqueued, those registered before it and not cleared in between.
C23_QueueOrder ==
    [][LET Q == Waiting
           Q2 == Waiting'
           d == IF Len(Q2) < Len(Q) THEN 1 ELSE 0
       IN  /\ IF d = 1
              THEN /\ Q2 = Tail(Q)
                   /\ pc = "batch" /\ batch # <<>>
                   /\ LET it == Head(batch)
                      IN  CASE it.type = "AddListener" ->
                                   listeners' = [listeners EXCEPT
                                                    ![it.id] = Append(@, it.listener)]
                            [] it.type = "ClearListeners" ->
                                   listeners' = [listeners EXCEPT ![it.id] = <<>>]
                            [] OTHER ->
                                   /\ listeners' = listeners
                                   /\ invoked = listeners[it.id]
              ELSE /\ SubSeq(Q2, 1, Len(Q)) = Q
                   /\ listeners' = listeners
                   /\ batch # <<>> => batch' = batch
           /\ \A k \in 1 .. Len(Q) - d :
                 Q[k + d].type = "Event" =>
                    Foreseen(listeners', Q2, k) = Foreseen(listeners, Q, k + d)]_vars

\* A register item for an Id without listeners and, enqueued after it, a
\* deliver item for the same Id are in the pass that is running: the
\* deliver item will invoke the listener of the register item.
C23_Witness ==
    /\ pc = "batch" /\ Len(batch) >= 2
    /\ batch[1].type = "AddListener" /\ batch[2].type = "Event"
    /\ batch[1].id = batch[2].id
    /\ listeners[batch[1].id] = <<>>
    /\ entry # "connect"
    /\ Foreseen(listeners, Waiting, 2) = <<batch[1].listener>>

\* A key handler has made its one callback, on the node that had the focus.
KeyCallbackDone ==
    /\ pc = "handled" /\ ev.kind \in {"key_down", "key_up"}
    /\ Len(calls) = 1

\* C24: only the holder can release capture or focus.  After a callback on a
\* node that was not the active node, active is what it was or the node
\* itself (which took the capture); and likewise for focused.
C24_OnlyHolderReleases ==
    KeyCallbackDone =>
        LET caller == calls[1].node
        IN  /\ ev.active # caller => layout_ctx.active \in {ev.active, caller}
            /\ ev.focused # caller => layout_ctx.focused \in {ev.focused, caller}

\* The interaction singletons that are set.
Singletons == {layout_ctx.active, layout_ctx.hot, layout_ctx.focused} \ {None}

\* C25: after any sequence of operations each of active, hot and focused
\* is unset or the Id of a live node: none refers to a slot that
\* delete_child has tombstoned.
C25_SingletonsLive ==
    \A id \in Singletons :
        id \in IdsOf(inner.widgets) /\ At(inner.widgets, id) # "NullWidget"

\* C26: at the return of every host callback, if the wants-next-frame flag
\* of any node is set then the animation state is not Idle: a paint cycle
\* has been asked for, or the last one returned true.
C26_NoStrandedFrame ==
    pc = "idle" => (Wanting(layout_ctx) # {} => layout_ctx.anim_state # "Idle")

\* A paint cycle has returned true to the host with a flag set by a request
\* made during the cycle.
C26_Witness ==
    /\ pc = "idle"
    /\ Wanting(layout_ctx) # {}
    /\ layout_ctx.anim_state = "AnimFrameRequested"
    /\ host.animating
    /\ host.painted_at # None

\* C27: after every pointer-motion event, if hot is set then the pointer is
\* over the hot node: the position lies inside the rectangle of the hot node
\* and of each of its ancestors, the root included.
C27_PointerOverHot ==
    (pc = "handled" /\ ev.kind = "mouse_move" /\ layout_ctx.hot # None) =>
        Hit(inner, ev.pos, layout_ctx.hot)
====
